---- MODULE Spec2Model ----
(***************************************************************************)
(* A model of the WAHA gateway: the upstream client (WahaClient), the      *)
(* controllers, the route layer and the application lifespan.              *)
(*                                                                         *)
(*   Spec        the application: the lifespan and the request handlers    *)
(*               running as concurrent coroutines                          *)
(*   SpecClient  WahaClient objects used through their public API by       *)
(*               concurrent coroutines, close() included                   *)
(*   SpecSessions, SpecMessages, SpecHealth                                *)
(*               the request/response translation of the session routes,   *)
(*               the message routes and the health routes: one handled     *)
(*               call after another, the last two kept for comparison      *)
(*   SpecSequential                                                        *)
(*               SpecClient with one operation at a time                   *)
(*   SpecControllers, SpecChats, SpecGroupSends, SpecDownload, SpecFailures*)
(*               the methods of the four controllers and of the client,    *)
(*               by topic                                                  *)
(***************************************************************************)
EXTENDS Integers, Sequences, FiniteSets, TLC

VARIABLES
    http_client,   \* WahaClient.http_client of each WahaClient object
    handles,       \* every httpx.AsyncClient created so far, in creation order
    lifespan,      \* position of the lifespan coroutine
    task,          \* position of each request coroutine
    used,          \* history: a request has been started on the client
    close_called,  \* history: close() has been called on the client
    APP_DEBUG,     \* settings.APP_DEBUG
    ncalls,        \* history: the number of calls handled so far
    cur,           \* the call handled last
    prev           \* the call handled before it

vars == <<http_client, handles, lifespan, task, used, close_called,
          APP_DEBUG, ncalls, cur, prev>>

connVars == <<http_client, handles, used, close_called>>
callVars == <<ncalls, cur, prev>>

-----------------------------------------------------------------------------
(* Bounds *)

NumTasks == 2
MaxHandles == 3
MaxCalls == 2

Tasks == 1..NumTasks

-----------------------------------------------------------------------------
(* The two WahaClient objects of the process *)

\* main.py:38, the object the lifespan creates and closes
LifespanClient == "lifespan"
\* dependencies.py:19, the object get_waha_client yields to every controller
DepsClient == "deps"

Clients == {LifespanClient, DepsClient}

\* self.http_client = None
NoHandle == 0

\* Optional[T]: None is the empty set, a value v is {v}
PyNone == {}
Some(v) == {v}
Unwrap(o) == CHOOSE v \in o : TRUE

-----------------------------------------------------------------------------
(* WahaClient._get_client and WahaClient.close *)

IsClosed(h) == handles[h].is_closed

\* a mutant: the "is None" test dropped, a handle per call
GetClientNeedsNew_Always(c) == TRUE

\* a mutant: no handle is ever created
GetClientNeedsNew_Never(c) == FALSE

\* if self.http_client is None or self.http_client.is_closed
GetClientNeedsNew(c) ==
    IF http_client[c] = NoHandle THEN TRUE ELSE IsClosed(http_client[c])

\* the handle _get_client returns to its caller
GetClientHandle(c) ==
    IF GetClientNeedsNew(c) THEN Len(handles) + 1 ELSE http_client[c]

\* _get_client has no suspension point: it runs in one step of its caller
GetClient(c) ==
    /\ GetClientNeedsNew(c) => Len(handles) < MaxHandles
    /\ http_client' = [http_client EXCEPT ![c] = GetClientHandle(c)]
    /\ handles' = IF GetClientNeedsNew(c)
                    THEN Append(handles, [owner |-> c, is_closed |-> FALSE])
                    ELSE handles
    /\ used' = [used EXCEPT ![c] = TRUE]

\* a mutant: close() without the is_closed test
CloseGuard_NoClosedTest(c) == http_client[c] # NoHandle

\* if self.http_client and not self.http_client.is_closed
CloseGuard(c) ==
    /\ http_client[c] # NoHandle
    /\ ~IsClosed(http_client[c])

\* await self.http_client.aclose(): the handle is closed at once, and the
\* coroutine may be suspended before the next statement runs
AClose(c) ==
    /\ handles' = [handles EXCEPT ![http_client[c]].is_closed = TRUE]
    /\ close_called' = [close_called EXCEPT ![c] = TRUE]
    /\ UNCHANGED <<http_client, used>>

\* self.http_client = None
CloseFinish(c) ==
    /\ http_client' = [http_client EXCEPT ![c] = NoHandle]
    /\ UNCHANGED <<handles, used, close_called>>

Idle == [pc |-> "idle", op |-> "none", client |-> "none", handle |-> NoHandle]

OpenHandles == {h \in DOMAIN handles : ~IsClosed(h)}
HandlesOf(c) == {h \in DOMAIN handles : handles[h].owner = c}

-----------------------------------------------------------------------------
(* The application: lifespan and request handlers *)

\* the routes whose controller comes from a Depends(get_*_controller)
Routes == {"start_session", "stop_session", "get_session_status", "get_qr_code",
           "get_qr_code_image", "logout_session", "check_connection",
           "send_message", "get_chats", "get_chat_messages", "delete_message",
           "messages_send_message_to_group", "get_conversations",
           "send_file_from_path", "send_uploaded_file", "send_file_from_url",
           "send_file_to_group", "download_file", "upload_file",
           "create_group", "get_groups", "get_group_details",
           "send_message_to_group", "list_my_groups"}

\* waha_client = WahaClient(); connected = await waha_client.ping()
LifespanStartup ==
    /\ lifespan = "init"
    /\ GetClient(LifespanClient)
    /\ lifespan' = "pinging"
    /\ UNCHANGED <<task, close_called, APP_DEBUG, callVars>>

\* the ping answers or fails; either way the application starts serving
LifespanPingDone ==
    /\ lifespan = "pinging"
    /\ lifespan' = "serving"
    /\ UNCHANGED <<task, connVars, APP_DEBUG, callVars>>

\* a request arrives: the controller is built on the client get_waha_client
\* yields, and the client method runs up to its await on the HTTP call
HandlerBegin(t, r) ==
    /\ lifespan = "serving"
    /\ task[t].pc = "idle"
    /\ GetClient(DepsClient)
    /\ task' = [task EXCEPT ![t] = [pc |-> "awaiting", op |-> r,
                                    client |-> DepsClient,
                                    handle |-> GetClientHandle(DepsClient)]]
    /\ UNCHANGED <<lifespan, close_called, APP_DEBUG, callVars>>

\* the upstream answers (or the call fails) and the handler returns
HandlerEnd(t) ==
    /\ task[t].pc = "awaiting"
    /\ task' = [task EXCEPT ![t] = Idle]
    /\ UNCHANGED <<lifespan, connVars, APP_DEBUG, callVars>>

\* after the yield: await waha_client.close(), up to the await on aclose()
LifespanShutdown ==
    /\ lifespan = "serving"
    /\ CloseGuard(LifespanClient)
    /\ AClose(LifespanClient)
    /\ lifespan' = "closing"
    /\ UNCHANGED <<task, APP_DEBUG, callVars>>

LifespanClosed ==
    /\ lifespan = "closing"
    /\ CloseFinish(LifespanClient)
    /\ lifespan' = "stopped"
    /\ UNCHANGED <<task, APP_DEBUG, callVars>>

NoCall == [op |-> "none"]

Init ==
    /\ http_client = [c \in Clients |-> NoHandle]
    /\ handles = <<>>
    /\ lifespan = "init"
    /\ task = [t \in Tasks |-> Idle]
    /\ used = [c \in Clients |-> FALSE]
    /\ close_called = [c \in Clients |-> FALSE]
    /\ APP_DEBUG \in BOOLEAN
    /\ ncalls = 0
    /\ cur = NoCall
    /\ prev = NoCall

Next ==
    \/ LifespanStartup
    \/ LifespanPingDone
    \/ \E t \in Tasks, r \in Routes : HandlerBegin(t, r)
    \/ \E t \in Tasks : HandlerEnd(t)
    \/ LifespanShutdown
    \/ LifespanClosed

Spec == Init /\ [][Next]_vars

-----------------------------------------------------------------------------
(* WahaClient objects used through their API by concurrent coroutines *)

\* any client method: client = await self._get_client(), then the await on
\* the HTTP call made on that handle
CallBegin(t, c) ==
    /\ task[t].pc = "idle"
    /\ GetClient(c)
    /\ task' = [task EXCEPT ![t] = [pc |-> "awaiting", op |-> "call",
                                    client |-> c,
                                    handle |-> GetClientHandle(c)]]
    /\ UNCHANGED <<lifespan, close_called, APP_DEBUG, callVars>>

\* the HTTP call returns or raises; the method returns or raises in turn
CallEnd(t) ==
    /\ task[t].pc = "awaiting"
    /\ task' = [task EXCEPT ![t] = Idle]
    /\ UNCHANGED <<lifespan, connVars, APP_DEBUG, callVars>>

\* close() on a client with an open handle, up to the await on aclose()
CloseBegin(t, c) ==
    /\ task[t].pc = "idle"
    /\ CloseGuard(c)
    /\ AClose(c)
    /\ task' = [task EXCEPT ![t] = [pc |-> "closing", op |-> "close",
                                    client |-> c, handle |-> http_client[c]]]
    /\ UNCHANGED <<lifespan, APP_DEBUG, callVars>>

\* close() on a client with no handle or a closed one: the if is not taken
CloseNoop(t, c) ==
    /\ task[t].pc = "idle"
    /\ ~CloseGuard(c)
    /\ close_called' = [close_called EXCEPT ![c] = TRUE]
    /\ UNCHANGED <<http_client, handles, used, task, lifespan, APP_DEBUG, callVars>>

\* close() resumes after aclose(): self.http_client = None
CloseEnd(t) ==
    /\ task[t].pc = "closing"
    /\ CloseFinish(task[t].client)
    /\ task' = [task EXCEPT ![t] = Idle]
    /\ UNCHANGED <<lifespan, APP_DEBUG, callVars>>

NextClient ==
    \/ \E t \in Tasks, c \in Clients : CallBegin(t, c)
    \/ \E t \in Tasks : CallEnd(t)
    \/ \E t \in Tasks, c \in Clients : CloseBegin(t, c)
    \/ \E t \in Tasks, c \in Clients : CloseNoop(t, c)
    \/ \E t \in Tasks : CloseEnd(t)

SpecClient == Init /\ [][NextClient]_vars

\* the same API used sequentially: an operation starts only when no other
\* coroutine is inside a request or a close()
Sequential(t) == \A u \in Tasks \ {t} : task[u].pc = "idle"

NextSequential ==
    \/ \E t \in Tasks, c \in Clients : Sequential(t) /\ CallBegin(t, c)
    \/ \E t \in Tasks : CallEnd(t)
    \/ \E t \in Tasks, c \in Clients : Sequential(t) /\ CloseBegin(t, c)
    \/ \E t \in Tasks, c \in Clients : Sequential(t) /\ CloseNoop(t, c)
    \/ \E t \in Tasks : CloseEnd(t)

SpecSequential == Init /\ [][NextSequential]_vars

-----------------------------------------------------------------------------
(* Values: strings that the code converts, exceptions, upstream answers *)

\* a session status is a string of characters, so that upper() is computed
LowerLetters == <<"a","b","c","d","e","f","g","h","i","j","k","l","m",
                  "n","o","p","q","r","s","t","u","v","w","x","y","z">>
UpperLetters == <<"A","B","C","D","E","F","G","H","I","J","K","L","M",
                  "N","O","P","Q","R","S","T","U","V","W","X","Y","Z">>

UpperChar(ch) ==
    IF \E i \in DOMAIN LowerLetters : LowerLetters[i] = ch
      THEN UpperLetters[CHOOSE i \in DOMAIN LowerLetters : LowerLetters[i] = ch]
      ELSE ch

\* str.upper()
Upper(s) == [i \in DOMAIN s |-> UpperChar(s[i])]

STARTED == <<"S","T","A","R","T","E","D">>
CONNECTED == <<"C","O","N","N","E","C","T","E","D">>
READY == <<"R","E","A","D","Y">>
NOT_FOUND == <<"N","O","T","_","F","O","U","N","D">>

\* the statuses the upstream is made to report
StatusStrings ==
    { STARTED, READY,
      <<"s","t","a","r","t","e","d">>,
      <<"C","o","n","n","e","c","t","e","d">>,
      <<"S","T","O","P","P","E","D">>,
      <<"S","C","A","N","N","I","N","G">>,
      <<"s","t","a","r","t">> }

Return(v) == [kind |-> "return", value |-> v]
Raise(type, msg) == [kind |-> "raise", type |-> type, msg |-> msg]

\* what the await on the HTTP call gives: a response, a network error, or
\* (before any handle exists) a failure to construct the httpx.AsyncClient
Resp(code, body) == [kind |-> "response", status |-> code, body |-> body]
NetworkErrors ==
    { [kind |-> "error", type |-> "ConnectError", msg |-> "All connection attempts failed"],
      [kind |-> "error", type |-> "ReadTimeout", msg |-> "The read operation timed out"] }
NoClient == [kind |-> "no_client", type |-> "Exception", msg |-> "cannot create the HTTP client"]

ErrorStatuses == {302, 404, 500}
ErrorBody == [error |-> "upstream"]
ErrorAnswers == {Resp(code, ErrorBody) : code \in ErrorStatuses} \cup NetworkErrors \cup {NoClient}

\* Response.is_success
IsSuccess(code) == code >= 200 /\ code <= 299

StatusMsg(code) ==
    CASE code = 302 -> "Redirect response '302 Found'"
      [] code = 404 -> "Client error '404 Not Found'"
      [] code = 500 -> "Server error '500 Internal Server Error'"
      [] OTHER -> "HTTP status error"

\* client = await self._get_client(); response = await client.get/post/delete(...)
HttpCall(up) ==
    IF up.kind = "response" THEN Return(up) ELSE Raise(up.type, up.msg)

\* response.raise_for_status()
raise_for_status(response) ==
    IF IsSuccess(response.status)
      THEN Return(response)
      ELSE Raise("HTTPStatusError", StatusMsg(response.status))

\* the HTTP request a client method issues, none when no handle could be made
Issued(up, request) == IF up.kind = "no_client" THEN PyNone ELSE Some(request)

\* a pydantic model built from keyword arguments: a missing required field
\* raises ValidationError
ValidationMsg(model) ==
    CASE model = "MessageResponse" -> "1 validation error for MessageResponse"
      [] model = "WahaSession" -> "1 validation error for WahaSession"
      [] OTHER -> "validation error"

PydanticInit(model, required, kwargs, value) ==
    IF required \subseteq DOMAIN kwargs
      THEN Return(value)
      ELSE Raise("ValidationError", ValidationMsg(model))

\* attribute access on a pydantic object
GetAttr(obj, attr) ==
    IF attr \in DOMAIN obj
      THEN Return(obj[attr])
      ELSE Raise("AttributeError", "object has no attribute")

\* dict.get(key, default)
DictGet(d, key, default) == IF key \in DOMAIN d THEN d[key] ELSE default

EmptyDict == <<>>

\* datetime parsing of the ISO strings the upstream sends
ParseDatetime(s) ==
    CASE s = "2024-01-01T00:00:00" -> <<2024, 1, 1, 0, 0, 0>>
      [] s = "2024-01-01 00:00:00" -> <<2024, 1, 1, 0, 0, 0>>
      [] OTHER -> <<1970, 1, 1, 0, 0, 0>>

-----------------------------------------------------------------------------
(* WahaClient methods: the outcome of a method for an upstream answer *)

\* a mutant: ping lets its failures out, as every other method does
WahaClient_ping_Propagates(up) ==
    LET r == HttpCall(up) IN
    IF r.kind = "raise" THEN r
    ELSE LET ok == raise_for_status(r.value) IN
         IF ok.kind = "raise" THEN ok ELSE Return(TRUE)

\* a mutant: ping without raise_for_status
WahaClient_ping_AnyResponse(up) ==
    IF HttpCall(up).kind = "raise" THEN Return(FALSE) ELSE Return(TRUE)

WahaClient_ping(up) ==
    LET r == HttpCall(up) IN
    IF r.kind = "raise" THEN Return(FALSE)
    ELSE IF raise_for_status(r.value).kind = "raise" THEN Return(FALSE)
    ELSE Return(TRUE)

PingRequest == [verb |-> "GET", url |-> <<"ping">>]

\* WahaSession(**response.json())
WahaSession(data) ==
    PydanticInit("WahaSession", {"id", "name", "status"}, data,
        [id |-> data.id, name |-> data.name, status |-> data.status,
         config |-> DictGet(data, "config", EmptyDict),
         created_at |-> IF "created_at" \in DOMAIN data
                          THEN Some(ParseDatetime(data.created_at)) ELSE PyNone,
         updated_at |-> IF "updated_at" \in DOMAIN data
                          THEN Some(ParseDatetime(data.updated_at)) ELSE PyNone])

\* a mutant: the 404 test dropped, a 404 raises like any other error status
WahaClient_get_session_status_No404(session_name, up) ==
    LET r == HttpCall(up) IN
    IF r.kind = "raise" THEN r
    ELSE LET ok == raise_for_status(r.value) IN
         IF ok.kind = "raise" THEN ok ELSE
         LET s == WahaSession(r.value.body) IN
         IF s.kind = "raise" THEN s ELSE Return(Some(s.value))

\* a mutant: every error status taken for absence
WahaClient_get_session_status_ErrorsAbsent(session_name, up) ==
    LET r == HttpCall(up) IN
    IF r.kind = "raise" THEN r
    ELSE IF ~IsSuccess(r.value.status) THEN Return(PyNone)
    ELSE LET s == WahaSession(r.value.body) IN
         IF s.kind = "raise" THEN s ELSE Return(Some(s.value))

WahaClient_get_session_status(session_name, up) ==
    LET r == HttpCall(up) IN
    IF r.kind = "raise" THEN r
    ELSE IF r.value.status = 404 THEN Return(PyNone)
    ELSE LET ok == raise_for_status(r.value) IN
         IF ok.kind = "raise" THEN ok ELSE
         LET s == WahaSession(r.value.body) IN
         IF s.kind = "raise" THEN s ELSE Return(Some(s.value))

SessionStatusRequest(session_name) ==
    [verb |-> "GET", url |-> <<"api", "sessions", session_name>>]

\* config or {}
OrEmptyDict(config) ==
    IF config = PyNone \/ Unwrap(config) = EmptyDict THEN EmptyDict ELSE Unwrap(config)

WahaClient_start_session(session_name, config, up) ==
    LET r == HttpCall(up) IN
    IF r.kind = "raise" THEN r
    ELSE LET ok == raise_for_status(r.value) IN
         IF ok.kind = "raise" THEN ok ELSE WahaSession(r.value.body)

StartSessionRequest(session_name, config) ==
    [verb |-> "POST", url |-> <<"api", "sessions", "start">>,
     json |-> [name |-> session_name, config |-> OrEmptyDict(config)]]

WahaClient_send_message(session_name, chat_id, message, quoted_message_id, up) ==
    LET r == HttpCall(up) IN
    IF r.kind = "raise" THEN r
    ELSE LET ok == raise_for_status(r.value) IN
         IF ok.kind = "raise" THEN ok ELSE Return(r.value.body)

SendMessageRequest(session_name, chat_id, message, quoted_message_id) ==
    [verb |-> "POST", url |-> <<"api", "sessions", session_name, "send", "text">>,
     json |-> IF quoted_message_id # PyNone /\ Unwrap(quoted_message_id) # ""
                THEN [chatId |-> chat_id, message |-> message,
                      quotedMessageId |-> Unwrap(quoted_message_id)]
                ELSE [chatId |-> chat_id, message |-> message]]

-----------------------------------------------------------------------------
(* Schemas *)

SessionResponse(id, name, status, config, created_at) ==
    [id |-> id, name |-> name, status |-> status,
     config |-> config, created_at |-> created_at]

SessionStatusResponse(session, connected, phone) ==
    [session |-> session, connected |-> connected, phone |-> phone]

\* id, chat_id, status and timestamp are all declared Field(...): required
MessageResponse(kwargs) ==
    PydanticInit("MessageResponse", {"id", "chat_id", "status", "timestamp"},
                 kwargs, kwargs)

HealthResponse(status, waha_connected, timestamp) ==
    [status |-> status, waha_connected |-> waha_connected, timestamp |-> timestamp]

-----------------------------------------------------------------------------
(* Controllers *)

ConnectedStatuses == {STARTED, CONNECTED, READY}

\* a mutant: the response named after the request, not after the upstream
SessionController_start_session_EchoName(name, config, up) ==
    LET s == WahaClient_start_session(name, config, up) IN
    IF s.kind = "raise" THEN s
    ELSE Return(SessionResponse(name, name, s.value.status,
                                Some(s.value.config), s.value.created_at))

SessionController_start_session(name, config, up) ==
    LET s == WahaClient_start_session(name, config, up) IN
    IF s.kind = "raise" THEN s
    ELSE Return(SessionResponse(s.value.id, s.value.name, s.value.status,
                                Some(s.value.config), s.value.created_at))

\* a mutant: the status compared as the upstream wrote it, without upper()
SessionController_get_session_status_NoUpper(session_name, up) ==
    LET s == WahaClient_get_session_status(session_name, up) IN
    IF s.kind = "raise" THEN s
    ELSE IF s.value = PyNone
      THEN Return(SessionStatusResponse(
                    SessionResponse(session_name, session_name, NOT_FOUND,
                                    PyNone, PyNone),
                    FALSE, PyNone))
      ELSE LET session == Unwrap(s.value) IN
           Return(SessionStatusResponse(
                    SessionResponse(session.id, session.name, session.status,
                                    Some(session.config), session.created_at),
                    session.status \in ConnectedStatuses, PyNone))

SessionController_get_session_status(session_name, up) ==
    LET s == WahaClient_get_session_status(session_name, up) IN
    IF s.kind = "raise" THEN s
    ELSE IF s.value = PyNone
      THEN Return(SessionStatusResponse(
                    SessionResponse(session_name, session_name, NOT_FOUND,
                                    PyNone, PyNone),
                    FALSE, PyNone))
      ELSE LET session == Unwrap(s.value) IN
           Return(SessionStatusResponse(
                    SessionResponse(session.id, session.name, session.status,
                                    Some(session.config), session.created_at),
                    Upper(session.status) \in ConnectedStatuses, PyNone))

\* sessions = await get_session_status(session_name=""); return [sessions.session]
SessionController_list_sessions(up) ==
    LET s == WahaClient_get_session_status("", up) IN
    IF s.kind = "raise" THEN s
    ELSE IF s.value = PyNone THEN Return(<<>>)
    ELSE LET a == GetAttr(Unwrap(s.value), "session") IN
         IF a.kind = "raise" THEN a ELSE Return(<<a.value>>)

\* a mutant: the status compared as the upstream spelled it
SessionController_check_connection_NoUpper(session_name, up) ==
    LET s == WahaClient_get_session_status(session_name, up) IN
    IF s.kind = "raise" THEN s
    ELSE Return([connected |-> /\ s.value # PyNone
                               /\ Unwrap(s.value).status \in ConnectedStatuses])

SessionController_check_connection(session_name, up) ==
    LET s == WahaClient_get_session_status(session_name, up) IN
    IF s.kind = "raise" THEN s
    ELSE Return([connected |-> /\ s.value # PyNone
                               /\ Upper(Unwrap(s.value).status) \in ConnectedStatuses])

MessageController_send_message(session_name, chat_id, message, quoted_message_id, up) ==
    LET result == WahaClient_send_message(session_name, chat_id, message,
                                          quoted_message_id, up) IN
    IF result.kind = "raise" THEN result
    ELSE MessageResponse([id |-> DictGet(result.value, "id", ""),
                          chat_id |-> chat_id,
                          status |-> DictGet(result.value, "status", "sent")])

-----------------------------------------------------------------------------
(* Route layer *)

HTTPException(status_code, detail) ==
    [kind |-> "raise", type |-> "HTTPException", msg |-> detail,
     status_code |-> status_code]

\* try: return await controller.method(...)
\* except Exception as e: raise HTTPException(status_code=500, detail=str(e))
RouteTry(ctl) ==
    IF ctl.kind = "raise" THEN HTTPException(500, ctl.msg) ELSE ctl

\* the handler registered for Exception
global_exception_handler(exc) ==
    [status |-> 500,
     body |-> [error |-> "InternalServerError",
               message |-> "An unexpected error occurred",
               details |-> IF APP_DEBUG THEN Some(exc.msg) ELSE PyNone]]

\* the response the application sends for what a route function did: its
\* return value, an HTTPException as {"detail": ...}, anything else through
\* the handler registered for Exception
AppResponse(outcome, status_code) ==
    IF outcome.kind = "return"
      THEN [status |-> status_code, body |-> outcome.value]
    ELSE IF outcome.type = "HTTPException"
      THEN [status |-> outcome.status_code, body |-> [detail |-> outcome.msg]]
    ELSE global_exception_handler(outcome)

health_check(up, now) ==
    LET waha_connected == WahaClient_ping(up) IN
    IF waha_connected.kind = "raise" THEN waha_connected
    ELSE Return(HealthResponse(
                  IF waha_connected.value THEN "healthy" ELSE "degraded",
                  waha_connected.value, now))

readiness(up) ==
    LET waha_connected == WahaClient_ping(up) IN
    IF waha_connected.kind = "raise" THEN waha_connected
    ELSE IF waha_connected.value
      THEN Return([status |-> "ready", waha |-> "connected"])
      ELSE Return([status |-> "not_ready", waha |-> "disconnected"])

-----------------------------------------------------------------------------
(* Handled calls: inputs, upstream answers and the record of a call *)

SessionNames == {"s1", "default"}
ChatIds == {"123", "456@g.us"}
Times == {"2024-06-01T12:00:00"}

SessionConfig == [webhook |-> "http://hook"]

SessionBodies ==
    {[id |-> "sid-1", name |-> "s1", status |-> st] : st \in StatusStrings}
    \cup {[id |-> "sid-1", name |-> "s1", status |-> st, config |-> SessionConfig,
           created_at |-> "2024-01-01T00:00:00"] : st \in {STARTED, NOT_FOUND}}
    \cup {[id |-> "sid-1", name |-> "s1"]}

SessionAnswers == {Resp(200, b) : b \in SessionBodies} \cup ErrorAnswers

StartBodies ==
    {[id |-> "sid-1", name |-> "s1", status |-> STARTED],
     [id |-> "sid-1", name |-> "s1", status |-> STARTED, config |-> SessionConfig,
      created_at |-> "2024-01-01T00:00:00"],
     [id |-> "sid-1", name |-> "s1"]}

StartAnswers == {Resp(201, b) : b \in StartBodies} \cup ErrorAnswers

SendBodies ==
    {[id |-> "m1", status |-> "sent"], [id |-> "m2", status |-> "PENDING"],
     [id |-> "m1"], [status |-> "PENDING"], EmptyDict}

SendAnswers ==
    {Resp(200, b) : b \in SendBodies}
    \cup {Resp(201, [id |-> "m1", status |-> "sent"])} \cup ErrorAnswers

PingAnswers ==
    {Resp(200, [message |-> "pong"]), Resp(204, EmptyDict)} \cup ErrorAnswers

NoResponse == [status |-> 0, body |-> EmptyDict]

\* one handled call: the operation and its arguments, the upstream answer,
\* the HTTP request issued, and what the client method, the controller and
\* the application made of it
Call(op, client, args, up, request, cli, ctl, resp) ==
    [op |-> op, client |-> client, args |-> args, up |-> up,
     request |-> Issued(up, request), cli |-> cli, ctl |-> ctl, resp |-> resp]

\* a mutant: a method that raises drops the client's handle on its way out
Handled_DropsHandleOnFailure(c, up, call) ==
    /\ up.kind = "no_client" => GetClientNeedsNew(c)
    /\ IF up.kind = "no_client"
         THEN UNCHANGED <<http_client, handles, used>>
         ELSE /\ GetClientNeedsNew(c) => Len(handles) < MaxHandles
              /\ handles' = IF GetClientNeedsNew(c)
                              THEN Append(handles, [owner |-> c, is_closed |-> FALSE])
                              ELSE handles
              /\ http_client' = [http_client EXCEPT ![c] =
                                    IF call.cli.kind = "raise" THEN NoHandle
                                    ELSE GetClientHandle(c)]
              /\ used' = [used EXCEPT ![c] = TRUE]
    /\ ncalls' = ncalls + 1
    /\ prev' = cur
    /\ cur' = call
    /\ UNCHANGED <<lifespan, task, close_called, APP_DEBUG>>

\* the effect of a call on the state: the client method runs _get_client on
\* its WahaClient, and the call is recorded
Handled(c, up, call) ==
    /\ up.kind = "no_client" => GetClientNeedsNew(c)
    /\ IF up.kind = "no_client"
         THEN UNCHANGED <<http_client, handles, used>>
         ELSE GetClient(c)
    /\ ncalls' = ncalls + 1
    /\ prev' = cur
    /\ cur' = call
    /\ UNCHANGED <<lifespan, task, close_called, APP_DEBUG>>

\* POST /sessions
RouteStartSession ==
    \E name \in SessionNames, config \in {PyNone, Some(SessionConfig)}, up \in StartAnswers :
      LET ctl == SessionController_start_session(name, config, up) IN
      /\ ncalls < MaxCalls
      /\ Handled(DepsClient, up,
              Call("start_session", DepsClient, [name |-> name, config |-> config],
                   up, StartSessionRequest(name, config),
                   WahaClient_start_session(name, config, up), ctl,
                   AppResponse(RouteTry(ctl), 201)))

\* GET /sessions/{session_name}
RouteGetSessionStatus ==
    \E name \in SessionNames, up \in SessionAnswers :
      LET ctl == SessionController_get_session_status(name, up) IN
      /\ ncalls < MaxCalls
      /\ Handled(DepsClient, up,
              Call("get_session_status", DepsClient, [session_name |-> name],
                   up, SessionStatusRequest(name),
                   WahaClient_get_session_status(name, up), ctl,
                   AppResponse(RouteTry(ctl), 200)))

\* GET /sessions/{session_name}/connected
RouteCheckConnection ==
    \E name \in {"s1"}, up \in SessionAnswers :
      LET ctl == SessionController_check_connection(name, up) IN
      /\ ncalls < MaxCalls
      /\ Handled(DepsClient, up,
              Call("check_connection", DepsClient, [session_name |-> name],
                   up, SessionStatusRequest(name),
                   WahaClient_get_session_status(name, up), ctl,
                   AppResponse(RouteTry(ctl), 200)))

\* SessionController.list_sessions, which no route calls
ListSessions ==
    \E up \in SessionAnswers :
      /\ ncalls < MaxCalls
      /\ Handled(DepsClient, up,
              Call("list_sessions", DepsClient, EmptyDict,
                   up, SessionStatusRequest(""),
                   WahaClient_get_session_status("", up),
                   SessionController_list_sessions(up), NoResponse))

\* POST /messages/send/{session_name}
RouteSendMessage ==
    \E chat_id \in ChatIds, quoted \in {PyNone, Some("q1")}, up \in SendAnswers :
      LET ctl == MessageController_send_message("s1", chat_id, "hi", quoted, up) IN
      /\ ncalls < MaxCalls
      /\ Handled(DepsClient, up,
              Call("send_message", DepsClient,
                   [session_name |-> "s1", chat_id |-> chat_id, message |-> "hi",
                    quoted_message_id |-> quoted],
                   up, SendMessageRequest("s1", chat_id, "hi", quoted),
                   WahaClient_send_message("s1", chat_id, "hi", quoted, up), ctl,
                   AppResponse(RouteTry(ctl), 200)))

\* GET /health, on whichever WahaClient the function is given
RouteHealthCheck ==
    \E c \in Clients, now \in Times, up \in PingAnswers :
      /\ ncalls < MaxCalls
      /\ Handled(c, up,
              Call("health_check", c, EmptyDict, up, PingRequest,
                   WahaClient_ping(up), health_check(up, now),
                   AppResponse(health_check(up, now), 200)))

\* GET /health/ready
RouteReadiness ==
    \E c \in Clients, up \in PingAnswers :
      /\ ncalls < MaxCalls
      /\ Handled(c, up,
              Call("readiness", c, EmptyDict, up, PingRequest,
                   WahaClient_ping(up), readiness(up),
                   AppResponse(readiness(up), 200)))

NextSessions ==
    \/ RouteStartSession
    \/ RouteGetSessionStatus
    \/ RouteCheckConnection
    \/ ListSessions

SpecSessions == Init /\ [][NextSessions]_vars

NextMessages ==
    \/ RouteSendMessage

SpecMessages == Init /\ [][NextMessages]_vars

NextHealth ==
    \/ RouteHealthCheck
    \/ RouteReadiness

SpecHealth == Init /\ [][NextHealth]_vars

-----------------------------------------------------------------------------
(* The other WahaClient methods: what a method returns or raises, together  *)
(* with the HTTP requests it issued on the way                              *)

MaxInvocations == 1

Done(outcome, requests) == [outcome |-> outcome, requests |-> requests]

\* truth value of an Optional[str] and of an Optional[bytes]
TruthyStr(o) == IF o = PyNone THEN FALSE ELSE Unwrap(o) # ""
\* a mutant: the bytes tested against None, not for emptiness
TruthyBytes_NotNone(o) == o # PyNone

TruthyBytes(o) == IF o = PyNone THEN FALSE ELSE Len(Unwrap(o)) > 0

\* a mutant: a request that failed is sent a second time
HttpRequest_Retry(up, request) ==
    IF up.kind = "no_client" THEN Done(Raise(up.type, up.msg), <<>>)
    ELSE LET r == HttpCall(up) IN
         IF r.kind = "raise" THEN Done(r, <<request, request>>)
         ELSE IF raise_for_status(r.value).kind = "raise"
           THEN Done(raise_for_status(r.value), <<request, request>>)
           ELSE Done(raise_for_status(r.value), <<request>>)

\* client = await self._get_client()
\* response = await client.get/post/delete(...)
\* response.raise_for_status()
HttpRequest(up, request) ==
    IF up.kind = "no_client" THEN Done(Raise(up.type, up.msg), <<>>)
    ELSE LET r == HttpCall(up) IN
         IF r.kind = "raise" THEN Done(r, <<request>>)
         ELSE Done(raise_for_status(r.value), <<request>>)

\* return response.json()
Json(d) ==
    IF d.outcome.kind = "raise" THEN d
    ELSE Done(Return(d.outcome.value.body), d.requests)

\* [Model(**item) for item in response.json()]: the first item that does not
\* validate raises
ListOf(results) ==
    IF \E i \in DOMAIN results : results[i].kind = "raise"
      THEN results[CHOOSE i \in DOMAIN results :
                     /\ results[i].kind = "raise"
                     /\ \A j \in 1..(i - 1) : results[j].kind = "return"]
      ELSE Return([i \in DOMAIN results |-> results[i].value])

OptionalField(data, key) == IF key \in DOMAIN data THEN Some(data[key]) ELSE PyNone

OptionalDatetime(data, key) ==
    IF key \in DOMAIN data THEN Some(ParseDatetime(data[key])) ELSE PyNone

StopSessionRequest(session_name) ==
    [verb |-> "POST", url |-> <<"api", "sessions", "stop", session_name>>]

WahaClient_stop_session(session_name, up) ==
    Json(HttpRequest(up, StopSessionRequest(session_name)))

LogoutSessionRequest(session_name) ==
    [verb |-> "DELETE", url |-> <<"api", "sessions", session_name>>]

WahaClient_logout_session(session_name, up) ==
    Json(HttpRequest(up, LogoutSessionRequest(session_name)))

QRCodeRequest(session_name) ==
    [verb |-> "GET", url |-> <<"api", "sessions", session_name, "qr">>]

\* QRCodeResponse(**response.json())
WahaQRCode(data) ==
    PydanticInit("QRCodeResponse", {"pairing_code"}, data,
        [pairing_code |-> data.pairing_code,
         expires_at |-> OptionalDatetime(data, "expires_at")])

WahaClient_get_qr_code(session_name, up) ==
    LET d == Json(HttpRequest(up, QRCodeRequest(session_name))) IN
    IF d.outcome.kind = "raise" THEN d
    ELSE Done(WahaQRCode(d.outcome.value), d.requests)

QRCodeImageRequest(session_name) ==
    [verb |-> "GET", url |-> <<"api", "sessions", session_name, "qr-image">>]

WahaClient_get_qr_code_image(session_name, up) ==
    LET d == Json(HttpRequest(up, QRCodeImageRequest(session_name))) IN
    IF d.outcome.kind = "raise" THEN d
    ELSE Done(Return(DictGet(d.outcome.value, "image", "")), d.requests)

\* the local files open(file_path, "rb") can find, with their content
FileSystem ==
    [p \in {"/data/a.txt", "/data/empty"} |->
       IF p = "/data/a.txt" THEN <<104, 105>> ELSE <<>>]

\* with open(file_path, "rb") as f: file_content = f.read()
ReadFile(file_path) ==
    IF file_path \in DOMAIN FileSystem
      THEN Return(FileSystem[file_path])
      ELSE Raise("FileNotFoundError", "No such file or directory")

\* filename or "file"
OrFile(filename) == IF TruthyStr(filename) THEN Unwrap(filename) ELSE "file"

SendFileUrl(session_name) == <<"api", "sessions", session_name, "send", "file">>

\* a mutant: the caption field sent whatever the caption is
SendFileMultipart_AlwaysCaption(session_name, chat_id, content, caption, filename) ==
    [verb |-> "POST", url |-> SendFileUrl(session_name),
     files |-> [file |-> <<OrFile(filename), content>>],
     data |-> [chatId |-> chat_id, caption |-> caption]]

\* files = {"file": (filename or "file", file_content)}; data = {"chatId": chat_id}
\* if caption: data["caption"] = caption
SendFileMultipart(session_name, chat_id, content, caption, filename) ==
    [verb |-> "POST", url |-> SendFileUrl(session_name),
     files |-> [file |-> <<OrFile(filename), content>>],
     data |-> IF TruthyStr(caption)
                THEN [chatId |-> chat_id, caption |-> Unwrap(caption)]
                ELSE [chatId |-> chat_id]]

\* payload = {"chatId": ..., "url": ..., "caption": ..., "filename": ...}
SendFileJson(session_name, chat_id, file_url, caption, filename) ==
    [verb |-> "POST", url |-> SendFileUrl(session_name),
     json |-> [chatId |-> chat_id, url |-> Unwrap(file_url),
               caption |-> caption, filename |-> filename]]

\* a mutant: the supplied bytes preferred to the file at the path
SourceContent_SuppliedFirst(file_path, file_content) ==
    IF file_content # PyNone THEN Return(file_content)
    ELSE IF file_path # PyNone
      THEN LET read == ReadFile(Unwrap(file_path)) IN
           IF read.kind = "raise" THEN read ELSE Return(Some(read.value))
      ELSE Return(file_content)

\* if file_path: file_content = the file's bytes
SourceContent(file_path, file_content) ==
    IF file_path # PyNone
      THEN LET read == ReadFile(Unwrap(file_path)) IN
           IF read.kind = "raise" THEN read ELSE Return(Some(read.value))
      ELSE Return(file_content)

\* a mutant: the URL form tried first, and no validation of the sources
WahaClient_send_file_UrlFirst(session_name, chat_id, file_path, file_content, file_url, caption, filename, up) ==
    IF up.kind = "no_client" THEN Done(Raise(up.type, up.msg), <<>>)
    ELSE Json(HttpRequest(up, [verb |-> "POST", url |-> SendFileUrl(session_name),
                               json |-> [chatId |-> chat_id, url |-> file_url,
                                         caption |-> caption, filename |-> filename]]))

WahaClient_send_file(session_name, chat_id, file_path, file_content, file_url, caption, filename, up) ==
    IF up.kind = "no_client" THEN Done(Raise(up.type, up.msg), <<>>)
    ELSE LET src == SourceContent(file_path, file_content) IN
         IF src.kind = "raise" THEN Done(src, <<>>)
         ELSE IF TruthyBytes(src.value)
           THEN Json(HttpRequest(up, SendFileMultipart(session_name, chat_id,
                                       Unwrap(src.value), caption, filename)))
         ELSE IF TruthyStr(file_url)
           THEN Json(HttpRequest(up, SendFileJson(session_name, chat_id, file_url,
                                                  caption, filename)))
         ELSE Done(Raise("ValueError",
                         "Must provide file_path, file_content, or file_url"), <<>>)

\* a mutant: group files sent to an endpoint of their own
WahaClient_send_file_to_group_GroupEndpoint(session_name, group_id, file_path, file_content, file_url, caption, filename, up) ==
    LET m == WahaClient_send_file(session_name, group_id, file_path, file_content,
                                  file_url, caption, filename, up) IN
    Done(m.outcome,
         [i \in DOMAIN m.requests |->
            [m.requests[i] EXCEPT !.url = <<"api", "sessions", session_name,
                                            "groups", group_id, "send", "file">>]])

\* return await self.send_file(session_name=session_name, chat_id=group_id, ...)
WahaClient_send_file_to_group(session_name, group_id, file_path, file_content, file_url, caption, filename, up) ==
    WahaClient_send_file(session_name, group_id, file_path, file_content,
                         file_url, caption, filename, up)

UploadFileRequest(session_name, content, filename) ==
    [verb |-> "POST", url |-> <<"api", "sessions", session_name, "files", "upload">>,
     files |-> [file |-> <<OrFile(filename), content>>]]

WahaClient_upload_file(session_name, file_path, file_content, filename, up) ==
    IF up.kind = "no_client" THEN Done(Raise(up.type, up.msg), <<>>)
    ELSE LET src == SourceContent(file_path, file_content) IN
         IF src.kind = "raise" THEN Done(src, <<>>)
         ELSE IF TruthyBytes(src.value)
           THEN Json(HttpRequest(up, UploadFileRequest(session_name,
                                       Unwrap(src.value), filename)))
         ELSE Done(Raise("ValueError", "Must provide file_path or file_content"), <<>>)

DownloadFileRequest(session_name, message_id) ==
    [verb |-> "GET",
     url |-> <<"api", "sessions", session_name, "messages", message_id, "download">>]

\* return response.content: the bytes of the response body
WahaClient_download_file(session_name, message_id, up) ==
    LET d == HttpRequest(up, DownloadFileRequest(session_name, message_id)) IN
    IF d.outcome.kind = "raise" THEN d
    ELSE Done(Return(d.outcome.value.body), d.requests)

\* WahaChat(**chat)
WahaChat(data) ==
    PydanticInit("WahaChat", {"id", "name"}, data,
        [id |-> data.id, name |-> data.name,
         is_group |-> DictGet(data, "is_group", FALSE),
         unread_count |-> DictGet(data, "unread_count", 0),
         last_message |-> OptionalField(data, "last_message"),
         last_message_time |-> OptionalDatetime(data, "last_message_time")])

GetChatsRequest(session_name) ==
    [verb |-> "GET", url |-> <<"api", "sessions", session_name, "chats">>]

\* a mutant: the chats of a session answered from the previous call
WahaClient_get_chats_Cached(session_name, up) ==
    IF /\ cur.op \in {"get_chats", "get_conversations"}
       /\ cur.args.session_name = session_name
       /\ cur.cli.kind = "return"
      THEN Done(cur.cli, <<>>)
      ELSE LET d == Json(HttpRequest(up, GetChatsRequest(session_name))) IN
           IF d.outcome.kind = "raise" THEN d
           ELSE Done(ListOf([i \in DOMAIN d.outcome.value |->
                               WahaChat(d.outcome.value[i])]), d.requests)

WahaClient_get_chats(session_name, up) ==
    LET d == Json(HttpRequest(up, GetChatsRequest(session_name))) IN
    IF d.outcome.kind = "raise" THEN d
    ELSE Done(ListOf([i \in DOMAIN d.outcome.value |-> WahaChat(d.outcome.value[i])]),
              d.requests)

\* WahaMessage(**msg)
WahaMessage(data) ==
    PydanticInit("WahaMessage", {"id", "conversation", "sender", "timestamp"}, data,
        [id |-> data.id, conversation |-> data.conversation, sender |-> data.sender,
         message |-> DictGet(data, "message", ""),
         timestamp |-> ParseDatetime(data.timestamp),
         type |-> DictGet(data, "type", "text"),
         from_me |-> DictGet(data, "from_me", FALSE)])

GetChatMessagesRequest(session_name, chat_id, limit) ==
    [verb |-> "GET", url |-> <<"api", "sessions", session_name, "chats", chat_id>>,
     params |-> [limit |-> limit]]

WahaClient_get_chat_messages(session_name, chat_id, limit, up) ==
    LET d == Json(HttpRequest(up, GetChatMessagesRequest(session_name, chat_id, limit))) IN
    IF d.outcome.kind = "raise" THEN d
    ELSE Done(ListOf([i \in DOMAIN d.outcome.value |-> WahaMessage(d.outcome.value[i])]),
              d.requests)

\* WahaGroup(**group)
WahaGroup(data) ==
    PydanticInit("WahaGroup", {"id", "name"}, data,
        [id |-> data.id, name |-> data.name,
         description |-> OptionalField(data, "description"),
         participants |-> DictGet(data, "participants", <<>>),
         created_at |-> OptionalDatetime(data, "created_at")])

GetGroupsRequest(session_name) ==
    [verb |-> "GET", url |-> <<"api", "sessions", session_name, "groups">>]

WahaClient_get_groups(session_name, up) ==
    LET d == Json(HttpRequest(up, GetGroupsRequest(session_name))) IN
    IF d.outcome.kind = "raise" THEN d
    ELSE Done(ListOf([i \in DOMAIN d.outcome.value |-> WahaGroup(d.outcome.value[i])]),
              d.requests)

\* participants or []
OrEmptyList(participants) ==
    IF participants = PyNone THEN <<>> ELSE Unwrap(participants)

CreateGroupRequest(session_name, group_name, participants) ==
    [verb |-> "POST", url |-> <<"api", "sessions", session_name, "groups">>,
     json |-> [name |-> group_name, participants |-> OrEmptyList(participants)]]

WahaClient_create_group(session_name, group_name, participants, up) ==
    LET d == Json(HttpRequest(up, CreateGroupRequest(session_name, group_name,
                                                     participants))) IN
    IF d.outcome.kind = "raise" THEN d
    ELSE Done(WahaGroup(d.outcome.value), d.requests)

\* send_message_to_group delegates to send_message with no quoted message
WahaClient_send_message_to_group(session_name, group_id, message, up) ==
    LET request == SendMessageRequest(session_name, group_id, message, PyNone) IN
    Done(WahaClient_send_message(session_name, group_id, message, PyNone, up),
         IF up.kind = "no_client" THEN <<>> ELSE <<request>>)

DeleteMessageRequest(session_name, chat_id, message_id) ==
    [verb |-> "DELETE", url |-> <<"api", "sessions", session_name, "messages">>,
     json |-> [chatId |-> chat_id, messageId |-> message_id]]

\* response = await client.delete(url, json=payload): httpx.AsyncClient.delete
\* has no json parameter, so the call raises TypeError and nothing is sent
WahaClient_delete_message(session_name, chat_id, message_id, up) ==
    IF up.kind = "no_client" THEN Done(Raise(up.type, up.msg), <<>>)
    ELSE Done(Raise("TypeError",
                    "AsyncClient.delete() got an unexpected keyword argument 'json'"),
              <<>>)

-----------------------------------------------------------------------------
(* The other schemas and controller methods *)

\* id, chat_id and status are required, url is Optional
FileResponse(kwargs) ==
    PydanticInit("FileResponse", {"id", "chat_id", "status"}, kwargs, kwargs)

GroupResponse(id, name, description, participants, created_at) ==
    [id |-> id, name |-> name, description |-> description,
     participants |-> participants, created_at |-> created_at]

QRCodeResponse(pairing_code, expires_at) ==
    [pairing_code |-> pairing_code, expires_at |-> expires_at]

\* a mutant: a failed stop is reported in the result and not raised
SessionController_stop_session_Swallow(session_name, up) ==
    IF WahaClient_stop_session(session_name, up).outcome.kind = "raise"
      THEN Return([status |-> "failed", session |-> session_name])
      ELSE Return([status |-> "stopped", session |-> session_name])

SessionController_stop_session(session_name, up) ==
    LET m == WahaClient_stop_session(session_name, up) IN
    IF m.outcome.kind = "raise" THEN m.outcome
    ELSE Return([status |-> "stopped", session |-> session_name])

SessionController_logout_session(session_name, up) ==
    LET m == WahaClient_logout_session(session_name, up) IN
    IF m.outcome.kind = "raise" THEN m.outcome
    ELSE Return([status |-> "logged_out", session |-> session_name])

SessionController_get_qr_code(session_name, up) ==
    LET m == WahaClient_get_qr_code(session_name, up) IN
    IF m.outcome.kind = "raise" THEN m.outcome
    ELSE Return(QRCodeResponse(m.outcome.value.pairing_code, m.outcome.value.expires_at))

SessionController_get_qr_code_image(session_name, up) ==
    LET m == WahaClient_get_qr_code_image(session_name, up) IN
    IF m.outcome.kind = "raise" THEN m.outcome
    ELSE Return([image |-> m.outcome.value])

MessageController_get_chats(session_name, up) ==
    LET m == WahaClient_get_chats(session_name, up) IN
    IF m.outcome.kind = "raise" THEN m.outcome
    ELSE Return([i \in DOMAIN m.outcome.value |->
                   LET chat == m.outcome.value[i] IN
                   [id |-> chat.id, name |-> chat.name, is_group |-> chat.is_group,
                    unread_count |-> chat.unread_count,
                    last_message |-> chat.last_message,
                    last_message_time |-> chat.last_message_time]])

MessageController_get_conversations(session_name, up) ==
    MessageController_get_chats(session_name, up)

MessageController_get_chat_messages(session_name, chat_id, limit, up) ==
    LET m == WahaClient_get_chat_messages(session_name, chat_id, limit, up) IN
    IF m.outcome.kind = "raise" THEN m.outcome
    ELSE Return([i \in DOMAIN m.outcome.value |->
                   LET msg == m.outcome.value[i] IN
                   [id |-> msg.id, conversation |-> msg.conversation,
                    sender |-> msg.sender, message |-> msg.message,
                    timestamp |-> msg.timestamp, type |-> msg.type,
                    from_me |-> msg.from_me]])

MessageController_delete_message(session_name, chat_id, message_id, up) ==
    LET m == WahaClient_delete_message(session_name, chat_id, message_id, up) IN
    IF m.outcome.kind = "raise" THEN m.outcome
    ELSE Return([status |-> "deleted", message_id |-> message_id])

MessageController_send_message_to_group(session_name, group_id, message, up) ==
    LET m == WahaClient_send_message_to_group(session_name, group_id, message, up) IN
    IF m.outcome.kind = "raise" THEN m.outcome
    ELSE MessageResponse([id |-> DictGet(m.outcome.value, "id", ""),
                          chat_id |-> group_id,
                          status |-> DictGet(m.outcome.value, "status", "sent")])

\* FileResponse(id=result.get("id", ""), chat_id=..., status=result.get("status",
\* "sent"), url=result.get("url"))
FileSent(result, chat_id) ==
    FileResponse([id |-> DictGet(result, "id", ""), chat_id |-> chat_id,
                  status |-> DictGet(result, "status", "sent"),
                  url |-> OptionalField(result, "url")])

FileController_send_file_from_path(session_name, chat_id, file_path, caption, filename, up) ==
    LET m == WahaClient_send_file(session_name, chat_id, Some(file_path), PyNone,
                                  PyNone, caption, filename, up) IN
    IF m.outcome.kind = "raise" THEN m.outcome ELSE FileSent(m.outcome.value, chat_id)

FileController_send_file_from_content(session_name, chat_id, file_content, caption, filename, up) ==
    LET m == WahaClient_send_file(session_name, chat_id, PyNone, Some(file_content),
                                  PyNone, caption, filename, up) IN
    IF m.outcome.kind = "raise" THEN m.outcome ELSE FileSent(m.outcome.value, chat_id)

FileController_send_file_from_url(session_name, chat_id, file_url, caption, filename, up) ==
    LET m == WahaClient_send_file(session_name, chat_id, PyNone, PyNone,
                                  Some(file_url), caption, filename, up) IN
    IF m.outcome.kind = "raise" THEN m.outcome ELSE FileSent(m.outcome.value, chat_id)

FileController_send_file_to_group(session_name, group_id, file_path, file_content, file_url, caption, filename, up) ==
    LET m == WahaClient_send_file_to_group(session_name, group_id, file_path,
                                           file_content, file_url, caption,
                                           filename, up) IN
    IF m.outcome.kind = "raise" THEN m.outcome ELSE FileSent(m.outcome.value, group_id)

\* content = await file.read(); upload_file(file_content=content,
\* filename=file.filename)
FileController_upload_file(session_name, file, up) ==
    WahaClient_upload_file(session_name, PyNone, Some(file.content),
                           file.filename, up).outcome

Digits == <<"0", "1", "2", "3", "4", "5", "6", "7", "8", "9">>

\* the ASCII code of the base64 digit of a 6-bit value: A-Z, a-z, 0-9, +, /
B64Code(v) ==
    IF v < 26 THEN 65 + v
    ELSE IF v < 52 THEN 97 + (v - 26)
    ELSE IF v < 62 THEN 48 + (v - 52)
    ELSE IF v = 62 THEN 43 ELSE 47

\* a mutant: the encoding without its padding
b64encode_NoPadding(s) ==
    LET Enc[i \in 0..((Len(s) + 2) \div 3)] ==
          IF i = 0 THEN <<>>
          ELSE LET b1 == s[3 * i - 2]
                   n == Len(s) - 3 * (i - 1) IN
               Enc[i - 1] \o
               IF n = 1
                 THEN <<B64Code(b1 \div 4), B64Code((b1 % 4) * 16)>>
               ELSE IF n = 2
                 THEN <<B64Code(b1 \div 4),
                        B64Code((b1 % 4) * 16 + s[3 * i - 1] \div 16),
                        B64Code((s[3 * i - 1] % 16) * 4)>>
               ELSE <<B64Code(b1 \div 4),
                      B64Code((b1 % 4) * 16 + s[3 * i - 1] \div 16),
                      B64Code((s[3 * i - 1] % 16) * 4 + s[3 * i] \div 64),
                      B64Code(s[3 * i] % 64)>>
    IN Enc[(Len(s) + 2) \div 3]

\* base64.b64encode(s): three bytes give four digits, a last group of one or
\* two bytes is padded with "=" (ASCII 61) to four; the result is bytes
b64encode(s) ==
    LET Enc[i \in 0..((Len(s) + 2) \div 3)] ==
          IF i = 0 THEN <<>>
          ELSE LET b1 == s[3 * i - 2]
                   n == Len(s) - 3 * (i - 1) IN
               Enc[i - 1] \o
               IF n = 1
                 THEN <<B64Code(b1 \div 4), B64Code((b1 % 4) * 16), 61, 61>>
               ELSE IF n = 2
                 THEN <<B64Code(b1 \div 4),
                        B64Code((b1 % 4) * 16 + s[3 * i - 1] \div 16),
                        B64Code((s[3 * i - 1] % 16) * 4), 61>>
               ELSE <<B64Code(b1 \div 4),
                      B64Code((b1 % 4) * 16 + s[3 * i - 1] \div 16),
                      B64Code((s[3 * i - 1] % 16) * 4 + s[3 * i] \div 64),
                      B64Code(s[3 * i] % 64)>>
    IN Enc[(Len(s) + 2) \div 3]

\* chr(code) for the ASCII codes of letters, digits, "+", "/" and "="
Chr(code) ==
    IF code \in 65..90 THEN UpperLetters[code - 64]
    ELSE IF code \in 97..122 THEN LowerLetters[code - 96]
    ELSE IF code \in 48..57 THEN Digits[code - 47]
    ELSE IF code = 43 THEN "+"
    ELSE IF code = 47 THEN "/"
    ELSE IF code = 61 THEN "=" ELSE "?"

\* bytes.decode("utf-8") of ASCII bytes: a str, one character per byte
decode_utf8(codes) == [i \in DOMAIN codes |-> Chr(codes[i])]

\* return {"file": base64.b64encode(file_content).decode("utf-8"),
\*         "message_id": message_id}
FileController_download_file(session_name, message_id, up) ==
    LET m == WahaClient_download_file(session_name, message_id, up) IN
    IF m.outcome.kind = "raise" THEN m.outcome
    ELSE Return([file |-> decode_utf8(b64encode(m.outcome.value)),
                 message_id |-> message_id])

GroupDict(group) ==
    [id |-> group.id, name |-> group.name, description |-> group.description,
     participants |-> group.participants, created_at |-> group.created_at]

GroupController_create_group(session_name, group_data, up) ==
    LET m == WahaClient_create_group(session_name, group_data.name,
                                     Some(group_data.participants), up) IN
    IF m.outcome.kind = "raise" THEN m.outcome
    ELSE LET group == m.outcome.value IN
         Return(GroupResponse(group.id, group.name, group.description,
                              group.participants, group.created_at))

GroupController_get_groups(session_name, up) ==
    LET m == WahaClient_get_groups(session_name, up) IN
    IF m.outcome.kind = "raise" THEN m.outcome
    ELSE Return([i \in DOMAIN m.outcome.value |-> GroupDict(m.outcome.value[i])])

GroupController_list_my_groups(session_name, up) ==
    GroupController_get_groups(session_name, up)

GroupController_send_message_to_group(session_name, group_id, message, up) ==
    LET m == WahaClient_send_message_to_group(session_name, group_id, message, up) IN
    IF m.outcome.kind = "raise" THEN m.outcome
    ELSE MessageResponse([id |-> DictGet(m.outcome.value, "id", ""),
                          chat_id |-> group_id,
                          status |-> DictGet(m.outcome.value, "status", "sent")])

GroupNotFound == [error |-> "Group not found"]

\* a mutant: the group looked up by its position in the list
GroupController_get_group_details_First(session_name, group_id, up) ==
    LET m == WahaClient_get_groups(session_name, up) IN
    IF m.outcome.kind = "raise" THEN m.outcome
    ELSE IF Len(m.outcome.value) > 0
      THEN Return(GroupDict(m.outcome.value[1]))
      ELSE Return(GroupNotFound)

\* for group in groups: if group.id == group_id: return {...}
\* return {"error": "Group not found"}
GroupController_get_group_details(session_name, group_id, up) ==
    LET m == WahaClient_get_groups(session_name, up) IN
    IF m.outcome.kind = "raise" THEN m.outcome
    ELSE LET groups == m.outcome.value IN
         IF \E i \in DOMAIN groups : groups[i].id = group_id
           THEN Return(GroupDict(groups[CHOOSE i \in DOMAIN groups :
                                          /\ groups[i].id = group_id
                                          /\ \A j \in 1..(i - 1) : groups[j].id # group_id]))
           ELSE Return(GroupNotFound)

-----------------------------------------------------------------------------
(* Handled calls of the other methods *)

\* the record of a call whose client method reports the requests it issued
Made(op, client, args, up, m, ctl, resp) ==
    [op |-> op, client |-> client, args |-> args, up |-> up,
     requests |-> m.requests, cli |-> m.outcome, ctl |-> ctl, resp |-> resp]

PlainAnswers == {Resp(200, [result |-> "ok"]), Resp(201, EmptyDict)} \cup ErrorAnswers

QRAnswers ==
    {Resp(200, [pairing_code |-> "ABCD"]),
     Resp(200, [pairing_code |-> "ABCD", expires_at |-> "2024-01-01T00:00:00"]),
     Resp(200, EmptyDict)} \cup ErrorAnswers

QRImageAnswers == {Resp(200, [image |-> "aGk="]), Resp(200, EmptyDict)} \cup ErrorAnswers

\* the error answers of the endpoints whose body is a JSON array
ListErrorAnswers ==
    {Resp(code, <<>>) : code \in ErrorStatuses} \cup NetworkErrors \cup {NoClient}

Chat1 == [id |-> "123@c.us", name |-> "Ann"]
Chat2 == [id |-> "456@g.us", name |-> "Team", is_group |-> TRUE, unread_count |-> 2,
          last_message |-> "hi", last_message_time |-> "2024-01-01T00:00:00"]

ChatsAnswers ==
    {Resp(200, <<>>), Resp(200, <<Chat1>>), Resp(200, <<Chat1, Chat2>>),
     Resp(200, <<Chat1, [id |-> "789@c.us"]>>)} \cup ListErrorAnswers

Message1 == [id |-> "m1", conversation |-> "123@c.us", sender |-> "123@c.us",
             message |-> "hi", timestamp |-> "2024-01-01T00:00:00"]

ChatMessagesAnswers ==
    {Resp(200, <<>>), Resp(200, <<Message1>>),
     Resp(200, <<[id |-> "m2", conversation |-> "123@c.us"]>>)} \cup ListErrorAnswers

GroupIds == {"g1@g.us", "g2@g.us", "g9@g.us"}

Group1 == [id |-> "g1@g.us", name |-> "Team"]
Group2 == [id |-> "g2@g.us", name |-> "Family", description |-> "home",
           participants |-> <<"111", "222">>, created_at |-> "2024-01-01T00:00:00"]
Group2Again == [id |-> "g2@g.us", name |-> "Family (old)"]

GroupsAnswers ==
    {Resp(200, <<>>), Resp(200, <<Group1>>), Resp(200, <<Group1, Group2>>),
     Resp(200, <<Group2, Group1, Group2Again>>),
     Resp(200, <<Group1, [id |-> "g3@g.us"]>>)} \cup ListErrorAnswers

CreateGroupAnswers ==
    {Resp(201, Group2), Resp(200, [id |-> "g1@g.us"])} \cup ErrorAnswers

FileBodies ==
    {[id |-> "f1", status |-> "sent", url |-> "http://waha/f1"],
     [id |-> "f1"], [status |-> "PENDING"], EmptyDict}

FileAnswers == {Resp(200, b) : b \in FileBodies} \cup ErrorAnswers

\* the answers tried when the client's send_file is called with every
\* combination of sources
FewAnswers ==
    {Resp(200, [id |-> "f1", status |-> "sent"]), Resp(500, ErrorBody), NoClient}
    \cup {e \in NetworkErrors : e.type = "ConnectError"}

UploadAnswers == {Resp(200, [id |-> "u1"])} \cup ErrorAnswers

Captions == {PyNone, Some(""), Some("hello")}
Filenames == {PyNone, Some("a.txt")}
Contents == {<<>>, <<104, 105>>}
Paths == {"/data/a.txt", "/data/empty", "/data/missing"}
FileUrls == {"", "http://files/x.png"}

\* POST /sessions/{session_name}/stop
RouteStopSession ==
    \E name \in SessionNames, up \in PlainAnswers :
      LET ctl == SessionController_stop_session(name, up) IN
      /\ ncalls < MaxCalls
      /\ Handled(DepsClient, up,
              Made("stop_session", DepsClient,
                   [session_name |-> name],
                   up, WahaClient_stop_session(name, up),
                   ctl, AppResponse(RouteTry(ctl), 200)))

\* DELETE /sessions/{session_name}
RouteLogoutSession ==
    \E name \in SessionNames, up \in PlainAnswers :
      LET ctl == SessionController_logout_session(name, up) IN
      /\ ncalls < MaxCalls
      /\ Handled(DepsClient, up,
              Made("logout_session", DepsClient,
                   [session_name |-> name],
                   up, WahaClient_logout_session(name, up),
                   ctl, AppResponse(RouteTry(ctl), 200)))

\* GET /sessions/{session_name}/qr
RouteGetQRCode ==
    \E name \in {"s1"}, up \in QRAnswers :
      LET ctl == SessionController_get_qr_code(name, up) IN
      /\ ncalls < MaxCalls
      /\ Handled(DepsClient, up,
              Made("get_qr_code", DepsClient,
                   [session_name |-> name],
                   up, WahaClient_get_qr_code(name, up),
                   ctl, AppResponse(RouteTry(ctl), 200)))

\* GET /sessions/{session_name}/qr/image
RouteGetQRCodeImage ==
    \E name \in {"s1"}, up \in QRImageAnswers :
      LET ctl == SessionController_get_qr_code_image(name, up) IN
      /\ ncalls < MaxCalls
      /\ Handled(DepsClient, up,
              Made("get_qr_code_image", DepsClient,
                   [session_name |-> name],
                   up, WahaClient_get_qr_code_image(name, up),
                   ctl, AppResponse(RouteTry(ctl), 200)))

\* GET /messages/chats/{session_name}
RouteGetChats ==
    \E name \in SessionNames, up \in ChatsAnswers :
      LET ctl == MessageController_get_chats(name, up) IN
      /\ ncalls < MaxCalls
      /\ Handled(DepsClient, up,
              Made("get_chats", DepsClient,
                   [session_name |-> name],
                   up, WahaClient_get_chats(name, up),
                   ctl, AppResponse(RouteTry(ctl), 200)))

\* GET /messages/conversations/{session_name}
RouteGetConversations ==
    \E name \in {"s1"}, up \in ChatsAnswers :
      LET ctl == MessageController_get_conversations(name, up) IN
      /\ ncalls < MaxCalls
      /\ Handled(DepsClient, up,
              Made("get_conversations", DepsClient,
                   [session_name |-> name],
                   up, WahaClient_get_chats(name, up),
                   ctl, AppResponse(RouteTry(ctl), 200)))

\* GET /messages/chats/{session_name}/{chat_id}
RouteGetChatMessages ==
    \E chat_id \in {"123@c.us"}, limit \in {1, 50}, up \in ChatMessagesAnswers :
      LET ctl == MessageController_get_chat_messages("s1", chat_id, limit, up) IN
      /\ ncalls < MaxCalls
      /\ Handled(DepsClient, up,
              Made("get_chat_messages", DepsClient,
                   [session_name |-> "s1", chat_id |-> chat_id, limit |-> limit],
                   up, WahaClient_get_chat_messages("s1", chat_id, limit, up),
                   ctl, AppResponse(RouteTry(ctl), 200)))

\* DELETE /messages/{session_name}/{chat_id}/{message_id}
RouteDeleteMessage ==
    \E message_id \in {"m1", "m2"}, up \in PlainAnswers :
      LET ctl == MessageController_delete_message("s1", "123@c.us", message_id, up) IN
      /\ ncalls < MaxCalls
      /\ Handled(DepsClient, up,
              Made("delete_message", DepsClient,
                   [session_name |-> "s1", chat_id |-> "123@c.us", message_id |-> message_id],
                   up, WahaClient_delete_message("s1", "123@c.us", message_id, up),
                   ctl, AppResponse(RouteTry(ctl), 200)))

\* POST /messages/groups/{session_name}/send
RouteMessagesSendToGroup ==
    \E group_id \in {"g1@g.us", "g2@g.us"}, up \in SendAnswers :
      LET ctl == MessageController_send_message_to_group("s1", group_id, "hi", up) IN
      /\ ncalls < MaxCalls
      /\ Handled(DepsClient, up,
              Made("messages_send_message_to_group", DepsClient,
                   [session_name |-> "s1", group_id |-> group_id, message |-> "hi"],
                   up, WahaClient_send_message_to_group("s1", group_id, "hi", up),
                   ctl, AppResponse(RouteTry(ctl), 200)))

\* POST /files/send/{session_name}/path
RouteSendFileFromPath ==
    \E file_path \in Paths, caption \in {PyNone, Some("hello")}, up \in FileAnswers :
      LET ctl == FileController_send_file_from_path("s1", "123", file_path, caption, PyNone, up) IN
      /\ ncalls < MaxCalls
      /\ Handled(DepsClient, up,
              Made("send_file_from_path", DepsClient,
                   [session_name |-> "s1", chat_id |-> "123", file_path |-> Some(file_path),
                    file_content |-> PyNone, file_url |-> PyNone,
                    caption |-> caption, filename |-> PyNone],
                   up, WahaClient_send_file("s1", "123", Some(file_path), PyNone, PyNone,
                                            caption, PyNone, up),
                   ctl, AppResponse(RouteTry(ctl), 200)))

\* POST /files/send/{session_name}/upload
RouteSendUploadedFile ==
    \E file_content \in Contents, caption \in Captions, filename \in Filenames,
       up \in FileAnswers :
      LET ctl == FileController_send_file_from_content("s1", "123", file_content, caption,
                                                      filename, up) IN
      /\ ncalls < MaxCalls
      /\ Handled(DepsClient, up,
              Made("send_file_from_content", DepsClient,
                   [session_name |-> "s1", chat_id |-> "123", file_path |-> PyNone,
                    file_content |-> Some(file_content), file_url |-> PyNone,
                    caption |-> caption, filename |-> filename],
                   up, WahaClient_send_file("s1", "123", PyNone, Some(file_content), PyNone,
                                            caption, filename, up),
                   ctl, AppResponse(RouteTry(ctl), 200)))

\* POST /files/send/{session_name}/url
RouteSendFileFromUrl ==
    \E file_url \in FileUrls, caption \in Captions, filename \in Filenames,
       up \in FileAnswers :
      LET ctl == FileController_send_file_from_url("s1", "123", file_url, caption, filename, up) IN
      /\ ncalls < MaxCalls
      /\ Handled(DepsClient, up,
              Made("send_file_from_url", DepsClient,
                   [session_name |-> "s1", chat_id |-> "123", file_path |-> PyNone,
                    file_content |-> PyNone, file_url |-> Some(file_url),
                    caption |-> caption, filename |-> filename],
                   up, WahaClient_send_file("s1", "123", PyNone, PyNone, Some(file_url),
                                            caption, filename, up),
                   ctl, AppResponse(RouteTry(ctl), 200)))

\* POST /files/send/{session_name}/group
RouteSendFileToGroup ==
    \E file_content \in Contents, caption \in {PyNone, Some("hello")},
       up \in FileAnswers :
      LET ctl == FileController_send_file_to_group("s1", "g1@g.us", PyNone,
                                                  Some(file_content), PyNone,
                                                  caption, Some("a.txt"), up) IN
      /\ ncalls < MaxCalls
      /\ Handled(DepsClient, up,
              Made("send_file_to_group", DepsClient,
                   [session_name |-> "s1", chat_id |-> "g1@g.us", file_path |-> PyNone,
                    file_content |-> Some(file_content), file_url |-> PyNone,
                    caption |-> caption, filename |-> Some("a.txt")],
                   up, WahaClient_send_file_to_group("s1", "g1@g.us", PyNone,
                                                     Some(file_content), PyNone,
                                                     caption, Some("a.txt"), up),
                   ctl, AppResponse(RouteTry(ctl), 200)))

\* POST /files/upload/{session_name}
RouteUploadFile ==
    \E file_content \in Contents, filename \in Filenames, up \in UploadAnswers :
      LET ctl == FileController_upload_file("s1", [content |-> file_content,
                                                  filename |-> filename], up) IN
      /\ ncalls < MaxCalls
      /\ Handled(DepsClient, up,
              Made("upload_file", DepsClient,
                   [session_name |-> "s1", file_path |-> PyNone,
                    file_content |-> Some(file_content), filename |-> filename],
                   up, WahaClient_upload_file("s1", PyNone, Some(file_content), filename, up),
                   ctl, AppResponse(RouteTry(ctl), 200)))

\* POST /groups/create/{session_name}
RouteCreateGroup ==
    \E participants \in {<<>>, <<"111", "222">>}, up \in CreateGroupAnswers :
      LET ctl == GroupController_create_group("s1", [name |-> "Team",
                                                   participants |-> participants], up) IN
      /\ ncalls < MaxCalls
      /\ Handled(DepsClient, up,
              Made("create_group", DepsClient,
                   [session_name |-> "s1", name |-> "Team", participants |-> participants],
                   up, WahaClient_create_group("s1", "Team", Some(participants), up),
                   ctl, AppResponse(RouteTry(ctl), 200)))

\* GET /groups/{session_name}
RouteGetGroups ==
    \E name \in {"s1"}, up \in GroupsAnswers :
      LET ctl == GroupController_get_groups(name, up) IN
      /\ ncalls < MaxCalls
      /\ Handled(DepsClient, up,
              Made("get_groups", DepsClient,
                   [session_name |-> name],
                   up, WahaClient_get_groups(name, up),
                   ctl, AppResponse(RouteTry(ctl), 200)))

\* GET /groups/list/{session_name}
RouteListMyGroups ==
    \E name \in {"s1"}, up \in GroupsAnswers :
      LET ctl == GroupController_list_my_groups(name, up) IN
      /\ ncalls < MaxCalls
      /\ Handled(DepsClient, up,
              Made("list_my_groups", DepsClient,
                   [session_name |-> name],
                   up, WahaClient_get_groups(name, up),
                   ctl, AppResponse(RouteTry(ctl), 200)))

\* GET /groups/{session_name}/{group_id}
RouteGetGroupDetails ==
    \E group_id \in GroupIds, up \in GroupsAnswers :
      LET ctl == GroupController_get_group_details("s1", group_id, up) IN
      /\ ncalls < MaxCalls
      /\ Handled(DepsClient, up,
              Made("get_group_details", DepsClient,
                   [session_name |-> "s1", group_id |-> group_id],
                   up, WahaClient_get_groups("s1", up),
                   ctl, AppResponse(RouteTry(ctl), 200)))

\* POST /groups/{session_name}/{group_id}/send
RouteGroupsSendMessage ==
    \E group_id \in {"g1@g.us", "g2@g.us"}, up \in SendAnswers :
      LET ctl == GroupController_send_message_to_group("s1", group_id, "hi", up) IN
      /\ ncalls < MaxCalls
      /\ Handled(DepsClient, up,
              Made("send_message_to_group", DepsClient,
                   [session_name |-> "s1", group_id |-> group_id, message |-> "hi"],
                   up, WahaClient_send_message_to_group("s1", group_id, "hi", up),
                   ctl, AppResponse(RouteTry(ctl), 200)))

\* WahaClient.send_file called with every combination of sources
ClientSendFile ==
    \E file_path \in {PyNone, Some("/data/a.txt")},
       file_content \in {PyNone, Some(<<>>), Some(<<104, 105>>)},
       file_url \in {PyNone, Some("http://files/x.png")},
       caption \in {Some(""), Some("hello")}, filename \in Filenames,
       up \in FewAnswers :
      LET m == WahaClient_send_file("s1", "123", file_path, file_content, file_url,
                                    caption, filename, up) IN
      /\ ncalls < MaxCalls
      /\ Handled(DepsClient, up,
              Made("send_file", DepsClient,
                   [session_name |-> "s1", chat_id |-> "123", file_path |-> file_path,
                    file_content |-> file_content, file_url |-> file_url,
                    caption |-> caption, filename |-> filename],
                   up, m, m.outcome, NoResponse))

MaxBytes == 3

ByteValues == {0, 105, 255}

\* every byte string of at most MaxBytes bytes
ByteStrings == UNION {[1..n -> ByteValues] : n \in 0..MaxBytes}

MessageIds == {"m1", "m2"}

\* the answers of the download endpoint: the body is the file's bytes
DownloadAnswers(contents) == {Resp(200, b) : b \in contents} \cup ListErrorAnswers

\* GET /files/download/{session_name}/{message_id}
RouteDownloadFile ==
    \E message_id \in MessageIds, up \in DownloadAnswers({<<>>, <<104, 105>>}) :
      LET ctl == FileController_download_file("s1", message_id, up) IN
      /\ ncalls < MaxCalls
      /\ Handled(DepsClient, up,
              Made("download_file", DepsClient,
                   [session_name |-> "s1", message_id |-> message_id],
                   up, WahaClient_download_file("s1", message_id, up),
                   ctl, AppResponse(RouteTry(ctl), 200)))

\* FileController.download_file, the upstream answering with any byte string
ControllerDownloadFile ==
    \E message_id \in MessageIds, up \in DownloadAnswers(ByteStrings) :
      LET ctl == FileController_download_file("s1", message_id, up) IN
      /\ ncalls < MaxCalls
      /\ Handled(DepsClient, up,
              Made("download_file", DepsClient,
                   [session_name |-> "s1", message_id |-> message_id],
                   up, WahaClient_download_file("s1", message_id, up),
                   ctl, NoResponse))

\* FileController.send_file_to_group called with every combination of sources
ControllerSendFileToGroup ==
    \E group_id \in {"g1@g.us", "g2@g.us"},
       file_path \in {PyNone} \cup {Some(p) : p \in Paths},
       file_content \in {PyNone, Some(<<>>), Some(<<120, 121>>)},
       file_url \in {PyNone, Some(""), Some("http://files/x.png")},
       caption \in {Some(""), Some("hello")},
       up \in FewAnswers :
      LET m == WahaClient_send_file_to_group("s1", group_id, file_path, file_content,
                                             file_url, caption, Some("a.txt"), up)
          ctl == FileController_send_file_to_group("s1", group_id, file_path,
                                                   file_content, file_url, caption,
                                                   Some("a.txt"), up) IN
      /\ ncalls < MaxCalls
      /\ Handled(DepsClient, up,
              Made("send_file_to_group", DepsClient,
                   [session_name |-> "s1", chat_id |-> group_id, file_path |-> file_path,
                    file_content |-> file_content, file_url |-> file_url,
                    caption |-> caption, filename |-> Some("a.txt")],
                   up, m, ctl, NoResponse))

NextChats ==
    \/ RouteGetChats
    \/ RouteGetConversations

SpecChats == Init /\ [][NextChats]_vars

\* the sends to a group, by message and by file
NextGroupSends ==
    \/ /\ ncalls < MaxInvocations
       /\ RouteMessagesSendToGroup
    \/ /\ ncalls < MaxInvocations
       /\ RouteGroupsSendMessage
    \/ /\ ncalls < MaxInvocations
       /\ RouteSendFileToGroup
    \/ /\ ncalls < MaxInvocations
       /\ ControllerSendFileToGroup

SpecGroupSends == Init /\ [][NextGroupSends]_vars

NextDownload ==
    \/ /\ ncalls < MaxInvocations
       /\ RouteDownloadFile
    \/ /\ ncalls < MaxInvocations
       /\ ControllerDownloadFile

SpecDownload == Init /\ [][NextDownload]_vars

\* calls that can fail, one after another: a method that lets its failure
\* out, one that rejects its call before sending, and ping, which hides it
NextFailures ==
    \/ RouteSendMessage
    \/ RouteDeleteMessage
    \/ RouteHealthCheck
    \/ RouteReadiness

SpecFailures == Init /\ [][NextFailures]_vars

\* every controller method, one invocation at a time
NextControllers ==
    \/ /\ ncalls < MaxInvocations
       /\ RouteStartSession
    \/ /\ ncalls < MaxInvocations
       /\ RouteGetSessionStatus
    \/ /\ ncalls < MaxInvocations
       /\ RouteCheckConnection
    \/ /\ ncalls < MaxInvocations
       /\ ListSessions
    \/ /\ ncalls < MaxInvocations
       /\ RouteSendMessage
    \/ /\ ncalls < MaxInvocations
       /\ RouteHealthCheck
    \/ /\ ncalls < MaxInvocations
       /\ RouteReadiness
    \/ /\ ncalls < MaxInvocations
       /\ RouteStopSession
    \/ /\ ncalls < MaxInvocations
       /\ RouteLogoutSession
    \/ /\ ncalls < MaxInvocations
       /\ RouteGetQRCode
    \/ /\ ncalls < MaxInvocations
       /\ RouteGetQRCodeImage
    \/ /\ ncalls < MaxInvocations
       /\ RouteGetChats
    \/ /\ ncalls < MaxInvocations
       /\ RouteGetConversations
    \/ /\ ncalls < MaxInvocations
       /\ RouteGetChatMessages
    \/ /\ ncalls < MaxInvocations
       /\ RouteDeleteMessage
    \/ /\ ncalls < MaxInvocations
       /\ RouteMessagesSendToGroup
    \/ /\ ncalls < MaxInvocations
       /\ RouteSendFileFromPath
    \/ /\ ncalls < MaxInvocations
       /\ RouteSendUploadedFile
    \/ /\ ncalls < MaxInvocations
       /\ RouteSendFileFromUrl
    \/ /\ ncalls < MaxInvocations
       /\ RouteSendFileToGroup
    \/ /\ ncalls < MaxInvocations
       /\ RouteUploadFile
    \/ /\ ncalls < MaxInvocations
       /\ RouteCreateGroup
    \/ /\ ncalls < MaxInvocations
       /\ RouteGetGroups
    \/ /\ ncalls < MaxInvocations
       /\ RouteListMyGroups
    \/ /\ ncalls < MaxInvocations
       /\ RouteGetGroupDetails
    \/ /\ ncalls < MaxInvocations
       /\ RouteGroupsSendMessage
    \/ /\ ncalls < MaxInvocations
       /\ ClientSendFile
    \/ /\ ncalls < MaxInvocations
       /\ RouteDownloadFile

SpecControllers == Init /\ [][NextControllers]_vars

-----------------------------------------------------------------------------
(* Properties *)

Handling(op) == cur.op = op
UpstreamOk == cur.up.kind = "response" /\ cur.up.status \in 200..299
UpstreamStatus(code) == cur.up.kind = "response" /\ cur.up.status = code

\* C1: POST /messages/send/{session}: when the upstream send-text call
\* succeeds with a JSON body that has id and status, the gateway answers 200
\* with the upstream's id and status and the caller's chat_id.
C1_SendAnswersUpstreamIdAndStatus ==
    (/\ Handling("send_message")
     /\ UpstreamOk
     /\ {"id", "status"} \subseteq DOMAIN cur.up.body)
    => /\ cur.resp.status = 200
       /\ cur.resp.body.id = cur.up.body.id
       /\ cur.resp.body.status = cur.up.body.status
       /\ cur.resp.body.chat_id = cur.args.chat_id

\* C2: the controller's get_session_status does not raise when the upstream
\* answers 404: it returns id = name = the requested name, status NOT_FOUND,
\* connected false and phone null.
C2_NotFoundIsSynthetic ==
    (Handling("get_session_status") /\ UpstreamStatus(404))
    => /\ cur.ctl.kind = "return"
       /\ cur.ctl.value.session.id = cur.args.session_name
       /\ cur.ctl.value.session.name = cur.args.session_name
       /\ cur.ctl.value.session.status = NOT_FOUND
       /\ cur.ctl.value.connected = FALSE
       /\ cur.ctl.value.phone = PyNone

C2_Witness ==
    /\ Handling("get_session_status")
    /\ UpstreamStatus(404)
    /\ cur.args.session_name = "default"
    /\ cur.ctl.kind = "return"

\* two characters that are the same letter in either case
SameLetter(a, b) ==
    \/ a = b
    \/ \E i \in DOMAIN LowerLetters : {a, b} = {LowerLetters[i], UpperLetters[i]}

EqualsIgnoringCase(s, t) ==
    /\ Len(s) = Len(t)
    /\ \A i \in DOMAIN s : SameLetter(s[i], t[i])

\* the upstream reports a session whose status is STARTED, CONNECTED or READY
\* in any mix of cases
UpstreamSessionIsConnected ==
    /\ UpstreamOk
    /\ "status" \in DOMAIN cur.up.body
    /\ \E k \in {STARTED, CONNECTED, READY} : EqualsIgnoringCase(cur.up.body.status, k)

\* C3: check_connection returns connected = true exactly when the upstream
\* reports a session whose status, compared case-insensitively, is STARTED,
\* CONNECTED or READY; it returns false for every other status and for a 404.
C3_ConnectedIffStatus ==
    Handling("check_connection")
    => /\ UpstreamStatus(404) => cur.ctl = Return([connected |-> FALSE])
       /\ (UpstreamOk /\ "status" \in DOMAIN cur.up.body) => cur.ctl.kind = "return"
       /\ cur.ctl.kind = "return"
            => (cur.ctl.value.connected <=> UpstreamSessionIsConnected)

C3_Witness ==
    /\ Handling("check_connection")
    /\ UpstreamOk
    /\ "status" \in DOMAIN cur.up.body
    /\ cur.up.body.status = <<"s","t","a","r","t","e","d">>
    /\ cur.ctl = Return([connected |-> TRUE])

\* C4: list_sessions returns an empty list when the upstream status call
\* reports nothing found, and otherwise a list with exactly one element
\* describing the session the upstream returned; it fails in neither case.
C4_ListSessionsReturnsList ==
    Handling("list_sessions")
    => /\ UpstreamStatus(404) => cur.ctl = Return(<<>>)
       /\ (UpstreamOk /\ "status" \in DOMAIN cur.up.body)
            => /\ cur.ctl.kind = "return"
               /\ Len(cur.ctl.value) = 1
               /\ cur.ctl.value[1].id = cur.up.body.id
               /\ cur.ctl.value[1].name = cur.up.body.name
               /\ cur.ctl.value[1].status = cur.up.body.status

Routed == cur.op \notin {"none", "list_sessions"}

\* C5: every error response the gateway returns when a controller or
\* upstream call fails has status 500 and a body with exactly the fields
\* error, message and details, details being an object or null.
C5_ErrorEnvelope ==
    (Routed /\ cur.ctl.kind = "raise")
    => /\ cur.resp.status = 500
       /\ DOMAIN cur.resp.body = {"error", "message", "details"}

\* C6: with debug off, two requests that fail with different exception
\* messages receive identical response bodies.
C6_NoErrorStringWithoutDebug ==
    (/\ ~APP_DEBUG
     /\ prev.op # "none"
     /\ prev.ctl.kind = "raise"
     /\ cur.ctl.kind = "raise"
     /\ prev.ctl.msg # cur.ctl.msg)
    => prev.resp.body = cur.resp.body

C8_PingReturnsBoolean ==
    (Handling("health_check") \/ Handling("readiness"))
    => /\ cur.cli.kind = "return"
       /\ cur.cli.value \in BOOLEAN
       /\ cur.cli.value <=> UpstreamOk

C8_Witness ==
    /\ Handling("readiness")
    /\ cur.up.kind = "no_client"
    /\ cur.cli = Return(FALSE)
    /\ prev.op # "none"
    /\ prev.up.kind = "response"
    /\ prev.up.status = 500
    /\ prev.cli = Return(FALSE)

\* C9: the process has a single upstream connection handle: the one the
\* startup code creates is the one every request handler uses, and at no
\* time do two distinct open handles exist.
C9_SingleHandle ==
    /\ Cardinality(OpenHandles) <= 1
    /\ \A t \in Tasks :
         task[t].pc = "awaiting" => handles[task[t].handle].owner = LifespanClient

\* C10: on one WahaClient the connection is created lazily and reused: no
\* handle exists before the first request, and with no close() in between
\* any number of interleaved requests create exactly one handle and all use it.
C10_LazyAndReused ==
    \A c \in Clients :
      /\ ~used[c] => (http_client[c] = NoHandle /\ HandlesOf(c) = {})
      /\ (used[c] /\ ~close_called[c])
           => /\ Cardinality(HandlesOf(c)) = 1
              /\ http_client[c] \in HandlesOf(c)
              /\ \A t \in Tasks :
                   (task[t].pc = "awaiting" /\ task[t].client = c)
                     => task[t].handle = http_client[c]

C10_Witness ==
    \E c \in Clients : \E t1, t2 \in Tasks :
      /\ t1 # t2
      /\ ~close_called[c]
      /\ task[t1].pc = "awaiting" /\ task[t1].client = c
      /\ task[t2].pc = "awaiting" /\ task[t2].client = c
      /\ task[t1].handle = task[t2].handle
      /\ Cardinality(HandlesOf(c)) = 1

\* the client holds a handle and that handle is open
HoldsOpenHandle(c) ==
    IF http_client[c] = NoHandle THEN FALSE ELSE ~handles[http_client[c]].is_closed

\* C11: close() is safe in every client state: on a client that never made a
\* request, and on a client whose handle is already closed, it changes
\* nothing and awaits nothing; it acts only on an open handle, which is closed
\* from the aclose() on, and when close() returns the client references no
\* handle.
C11_CloseIsSafe ==
    [][ /\ \A c \in Clients :
             (~close_called[c] /\ close_called'[c] /\ ~HoldsOpenHandle(c))
               => /\ http_client' = http_client
                  /\ handles' = handles
                  /\ task' = task
        /\ \A t \in Tasks :
             /\ (task[t].pc # "closing" /\ task'[t].pc = "closing")
                  => /\ HoldsOpenHandle(task'[t].client)
                     /\ task'[t].handle = http_client[task'[t].client]
                     /\ handles'[task'[t].handle].is_closed
             /\ (task[t].pc = "closing" /\ task'[t].pc = "idle")
                  => /\ http_client'[task[t].client] = NoHandle
                     /\ handles'[task[t].handle].is_closed
      ]_vars

\* close() has returned on a client that had an open handle, and close() has
\* been called on a client that never made a request
C11_Witness ==
    \E c1, c2 \in Clients :
      /\ used[c1] /\ close_called[c1]
      /\ http_client[c1] = NoHandle
      /\ HandlesOf(c1) # {}
      /\ \A h \in HandlesOf(c1) : IsClosed(h)
      /\ ~used[c2] /\ close_called[c2]
      /\ http_client[c2] = NoHandle
      /\ \A t \in Tasks : task[t].pc = "idle"

\* the calls that end in WahaClient.send_file
SendFileOps == {"send_file", "send_file_from_path", "send_file_from_content",
                "send_file_from_url", "send_file_to_group"}

\* the client could obtain a connection handle
HasClient == cur.up.kind # "no_client"

HasBytes == IF cur.args.file_content = PyNone THEN FALSE
            ELSE Unwrap(cur.args.file_content) # <<>>

HasUrl == IF cur.args.file_url = PyNone THEN FALSE
          ELSE Unwrap(cur.args.file_url) # ""

HasCaption == IF cur.args.caption = PyNone THEN FALSE
              ELSE Unwrap(cur.args.caption) # ""

\* C12: send_file called with no local path, no byte content and no URL
\* raises ValueError and issues no HTTP request (the client having obtained
\* its connection handle, which is the first thing the method does).
C12_NoSourceIsValueError ==
    (/\ cur.op \in SendFileOps
     /\ HasClient
     /\ cur.args.file_path = PyNone
     /\ cur.args.file_content = PyNone
     /\ cur.args.file_url = PyNone)
    => /\ cur.cli.kind = "raise"
       /\ cur.cli.type = "ValueError"
       /\ cur.requests = <<>>

C12_Witness ==
    /\ cur.op = "send_file"
    /\ cur.up.kind = "response"
    /\ cur.args.file_path = PyNone
    /\ cur.args.file_content = PyNone
    /\ cur.args.file_url = PyNone
    /\ cur.cli.kind = "raise"
    /\ cur.cli.type = "ValueError"
    /\ cur.requests = <<>>

\* C13: send_file with byte content (and no path) issues one multipart POST
\* to the session's send/file endpoint: the file part is named "file", the
\* form fields hold chatId always and caption exactly when the caption is
\* non-empty; with no content and a URL it issues one POST whose JSON payload
\* has chatId, url, caption and filename.
C13_SendFileEncoding ==
    (cur.op \in SendFileOps /\ HasClient /\ cur.args.file_path = PyNone)
    => /\ HasBytes
         => /\ Len(cur.requests) = 1
            /\ cur.requests[1].verb = "POST"
            /\ cur.requests[1].url =
                 <<"api", "sessions", cur.args.session_name, "send", "file">>
            /\ DOMAIN cur.requests[1] = {"verb", "url", "files", "data"}
            /\ DOMAIN cur.requests[1].files = {"file"}
            /\ cur.requests[1].files.file[2] = Unwrap(cur.args.file_content)
            /\ cur.requests[1].data.chatId = cur.args.chat_id
            /\ IF HasCaption
                 THEN /\ DOMAIN cur.requests[1].data = {"chatId", "caption"}
                      /\ cur.requests[1].data.caption = Unwrap(cur.args.caption)
                 ELSE DOMAIN cur.requests[1].data = {"chatId"}
       /\ (~HasBytes /\ HasUrl)
         => /\ Len(cur.requests) = 1
            /\ cur.requests[1].verb = "POST"
            /\ cur.requests[1].url =
                 <<"api", "sessions", cur.args.session_name, "send", "file">>
            /\ DOMAIN cur.requests[1] = {"verb", "url", "json"}
            /\ cur.requests[1].json =
                 [chatId |-> cur.args.chat_id, url |-> Unwrap(cur.args.file_url),
                  caption |-> cur.args.caption, filename |-> cur.args.filename]

\* byte content sent with an empty caption: one multipart request whose form
\* fields hold chatId only
C13_Witness ==
    /\ cur.op = "send_file_from_content"
    /\ HasBytes
    /\ cur.args.caption = Some("")
    /\ Len(cur.requests) = 1
    /\ DOMAIN cur.requests[1].data = {"chatId"}
    /\ cur.ctl.kind = "return"

\* the upstream answered 2xx with a list of groups that all have id and name
UpstreamGroupList ==
    /\ UpstreamOk
    /\ \A i \in DOMAIN cur.up.body : {"id", "name"} \subseteq DOMAIN cur.up.body[i]

\* the first group of the upstream list that has the requested id
RequestedGroup ==
    cur.up.body[CHOOSE i \in DOMAIN cur.up.body :
                  /\ cur.up.body[i].id = cur.args.group_id
                  /\ \A j \in 1..(i - 1) : cur.up.body[j].id # cur.args.group_id]

\* C14: get_group_details makes exactly one upstream call, the fetch of the
\* session's group list; for a group id that is not in the list it returns
\* {"error": "Group not found"} without raising, and for an id in the list it
\* returns that group's id, name, description, participants and created_at.
C14_GroupDetailsFromList ==
    (Handling("get_group_details") /\ UpstreamGroupList)
    => /\ cur.requests =
            << [verb |-> "GET",
                url |-> <<"api", "sessions", cur.args.session_name, "groups">>] >>
       /\ cur.ctl.kind = "return"
       /\ IF \E i \in DOMAIN cur.up.body : cur.up.body[i].id = cur.args.group_id
            THEN /\ DOMAIN cur.ctl.value =
                      {"id", "name", "description", "participants", "created_at"}
                 /\ cur.ctl.value.id = cur.args.group_id
                 /\ cur.ctl.value.name = RequestedGroup.name
                 /\ cur.ctl.value.description =
                      (IF "description" \in DOMAIN RequestedGroup
                         THEN {RequestedGroup.description} ELSE {})
                 /\ cur.ctl.value.participants =
                      (IF "participants" \in DOMAIN RequestedGroup
                         THEN RequestedGroup.participants ELSE <<>>)
                 /\ ("created_at" \in DOMAIN RequestedGroup)
                      <=> (cur.ctl.value.created_at # {})
            ELSE cur.ctl.value = [error |-> "Group not found"]

\* an id that the two-group list of the upstream does not hold
C14_Witness ==
    /\ Handling("get_group_details")
    /\ UpstreamOk
    /\ Len(cur.up.body) = 2
    /\ cur.args.group_id = "g9@g.us"
    /\ cur.ctl = Return([error |-> "Group not found"])
    /\ Len(cur.requests) = 1

\* the send operations of the Message, File and Group controllers
SendOps == {"send_message", "messages_send_message_to_group", "send_message_to_group",
            "send_file_from_path", "send_file_from_content", "send_file_from_url",
            "send_file_to_group"}

\* C15: tolerant extraction: when the upstream call of a send operation of
\* the Message, File or Group controller succeeds with a JSON object that
\* lacks id and/or status, the controller returns a response whose id is ""
\* and/or whose status is "sent", and does not raise.
C15_TolerantExtraction ==
    (/\ cur.op \in SendOps
     /\ cur.cli.kind = "return"
     /\ ~({"id", "status"} \subseteq DOMAIN cur.cli.value))
    => /\ cur.ctl.kind = "return"
       /\ cur.ctl.value.id =
            (IF "id" \in DOMAIN cur.cli.value THEN cur.cli.value.id ELSE "")
       /\ cur.ctl.value.status =
            (IF "status" \in DOMAIN cur.cli.value THEN cur.cli.value.status ELSE "sent")

\* C16: start_session forwards the caller's name and config to the upstream
\* start call unchanged (no config being sent as the empty config), and when
\* the upstream answers with a session the response's id, name and status are
\* the upstream's, and so are its config and created_at where the upstream
\* gives them.
C16_StartSessionMirrors ==
    Handling("start_session")
    => /\ cur.up.kind # "no_client"
         => /\ cur.request # {}
            /\ \A r \in cur.request :
                 /\ r.verb = "POST"
                 /\ r.json.name = cur.args.name
                 /\ r.json.config = (IF cur.args.config = {} THEN <<>>
                                     ELSE Unwrap(cur.args.config))
       /\ (UpstreamOk /\ {"id", "name", "status"} \subseteq DOMAIN cur.up.body)
         => /\ cur.ctl.kind = "return"
            /\ cur.ctl.value.id = cur.up.body.id
            /\ cur.ctl.value.name = cur.up.body.name
            /\ cur.ctl.value.status = cur.up.body.status
            /\ "config" \in DOMAIN cur.up.body
                 => cur.ctl.value.config = {cur.up.body.config}
            /\ "created_at" \in DOMAIN cur.up.body
                 => cur.ctl.value.created_at = {<<2024, 1, 1, 0, 0, 0>>}
            /\ cur.resp = [status |-> 201, body |-> cur.ctl.value]

\* a session started under one name and reported by the upstream under
\* another, with a config and a creation time
C16_Witness ==
    /\ Handling("start_session")
    /\ cur.args.name = "default"
    /\ cur.args.config = Some(SessionConfig)
    /\ UpstreamOk
    /\ {"config", "created_at"} \subseteq DOMAIN cur.up.body
    /\ cur.ctl.kind = "return"
    /\ cur.ctl.value.name = "s1"

\* the calls that end in WahaClient.get_session_status
SessionStatusOps == {"get_session_status", "check_connection", "list_sessions"}

\* C17: the client's get_session_status treats only HTTP 404 as absence: a
\* 404 yields None without raising, a 2xx yields the parsed session, and
\* every other status, like a network error, raises to the caller.
C17_Only404IsAbsence ==
    cur.op \in SessionStatusOps
    => /\ UpstreamStatus(404) => cur.cli = Return({})
       /\ (UpstreamOk /\ {"id", "name", "status"} \subseteq DOMAIN cur.up.body)
            => /\ cur.cli.kind = "return"
               /\ cur.cli.value # {}
               /\ \A session \in cur.cli.value :
                    /\ session.id = cur.up.body.id
                    /\ session.name = cur.up.body.name
                    /\ session.status = cur.up.body.status
       /\ (cur.up.kind = "response" /\ ~UpstreamOk /\ ~UpstreamStatus(404))
            => (cur.cli.kind = "raise" /\ cur.cli.type = "HTTPStatusError")
       /\ cur.up.kind = "error"
            => (cur.cli.kind = "raise" /\ cur.cli.type = cur.up.type)
       /\ cur.cli.kind = "return" => (cur.cli.value = {} <=> UpstreamStatus(404))

\* a 404 answered with None, then a 500 raised
C17_Witness ==
    /\ prev.op = "get_session_status"
    /\ prev.up.kind = "response"
    /\ prev.up.status = 404
    /\ prev.cli = Return({})
    /\ cur.op = "get_session_status"
    /\ UpstreamStatus(500)
    /\ cur.cli.kind = "raise"
    /\ cur.cli.type = "HTTPStatusError"

ChatsRequestOf(call) ==
    [verb |-> "GET", url |-> <<"api", "sessions", call.args.session_name, "chats">>]

IsChatsCall(call) == call.op \in {"get_chats", "get_conversations"}

\* C18: nothing is cached: every get_chats call issues one request to the
\* upstream chats endpoint, so two consecutive calls for the same session
\* with the upstream unchanged issue two requests, and they return equal
\* results.
C18_GetChatsNotCached ==
    /\ (IsChatsCall(cur) /\ cur.up.kind # "no_client")
         => cur.requests = <<ChatsRequestOf(cur)>>
    /\ (/\ IsChatsCall(prev)
        /\ IsChatsCall(cur)
        /\ prev.args.session_name = cur.args.session_name
        /\ prev.up.kind = "response"
        /\ cur.up.kind = "response"
        /\ prev.up.status = cur.up.status
        /\ prev.up.body = cur.up.body)
         => /\ prev.requests \o cur.requests =
                 <<ChatsRequestOf(prev), ChatsRequestOf(cur)>>
            /\ prev.ctl = cur.ctl

\* the same two chats listed twice in a row
C18_Witness ==
    /\ prev.op = "get_chats"
    /\ cur.op = "get_chats"
    /\ prev.args.session_name = cur.args.session_name
    /\ prev.up.kind = "response" /\ prev.up.status = 200
    /\ cur.up.kind = "response" /\ cur.up.status = 200
    /\ Len(prev.up.body) = 2
    /\ prev.up.body = cur.up.body
    /\ prev.ctl.kind = "return"
    /\ Len(cur.ctl.value) = 2
    /\ prev.ctl = cur.ctl
    /\ Len(prev.requests) = 1
    /\ Len(cur.requests) = 1

\* the upstream call failed: no handle, a network error or a non-2xx status
UpstreamFailed == cur.up.kind # "response" \/ ~UpstreamOk

\* the two failures the code swallows: ping's, and the 404 of get_session_status
SwallowedFailure ==
    \/ cur.op \in {"health_check", "readiness"}
    \/ cur.op \in SessionStatusOps /\ UpstreamStatus(404)

\* C19: upstream failures go through the controllers unchanged: when the
\* client call of a controller method raises, the controller raises that
\* same error and returns nothing; and a failed upstream call makes the
\* client raise, except in ping and for the 404 of get_session_status.
C19_FailuresPropagate ==
    cur.op # "none"
    => /\ cur.cli.kind = "raise" => cur.ctl = cur.cli
       /\ (UpstreamFailed /\ ~SwallowedFailure)
            => /\ cur.cli.kind = "raise"
               /\ cur.ctl.kind = "raise"
       /\ (UpstreamFailed /\ cur.ctl.kind = "return") => SwallowedFailure

\* a stop_session whose upstream call could not connect
C19_Witness ==
    /\ Handling("stop_session")
    /\ cur.up.kind = "error"
    /\ cur.cli.kind = "raise"
    /\ cur.cli.type = "ConnectError"
    /\ cur.ctl = cur.cli

\* the number of HTTP requests the client method of the call issued
RequestCount ==
    IF "requests" \in DOMAIN cur THEN Len(cur.requests) ELSE Cardinality(cur.request)

\* the method raised on its arguments before it reached the HTTP call
RejectedBeforeSending ==
    /\ cur.cli.kind = "raise"
    /\ cur.cli.type \in {"ValueError", "FileNotFoundError", "TypeError"}

\* C20: an invocation of a client method issues at most one HTTP request,
\* whether it succeeds or fails: exactly one when the request is sent, none
\* when the arguments are rejected first (or no connection handle could be
\* made); a request that failed is not sent again.
C20_AtMostOneRequest ==
    cur.op # "none"
    => /\ RequestCount <= 1
       /\ RequestCount = 0 <=> (cur.up.kind = "no_client" \/ RejectedBeforeSending)
       /\ (UpstreamFailed /\ cur.up.kind # "no_client" /\ ~RejectedBeforeSending)
            => RequestCount = 1

\* an upload that the upstream answered with 500: one request, and the error
C20_Witness ==
    /\ Handling("upload_file")
    /\ UpstreamStatus(500)
    /\ cur.cli.kind = "raise"
    /\ cur.cli.type = "HTTPStatusError"
    /\ Len(cur.requests) = 1

-----------------------------------------------------------------------------
GroupMessageOps == {"messages_send_message_to_group", "send_message_to_group"}

\* what WahaClient.send_file does with the arguments of the call, the group
\* id taken as the chat id
SendFileOfCall ==
    WahaClient_send_file(cur.args.session_name, cur.args.chat_id, cur.args.file_path,
                         cur.args.file_content, cur.args.file_url, cur.args.caption,
                         cur.args.filename, cur.up)

\* C21: a group send is an alias of the chat send: send_message_to_group
\* issues exactly the request of send_message with chat_id = group_id and no
\* quoted id, send_file_to_group exactly the request of send_file with
\* chat_id = group_id and the same source, caption and filename, and each
\* returns or raises what the call it delegates to returns or raises.
C21_GroupSendsAreAliases ==
    /\ (cur.op \in GroupMessageOps /\ "group_id" \in DOMAIN cur.args)
         => /\ cur.requests =
                 IF cur.up.kind = "no_client" THEN <<>>
                 ELSE <<SendMessageRequest(cur.args.session_name, cur.args.group_id,
                                           cur.args.message, PyNone)>>
            /\ cur.cli = WahaClient_send_message(cur.args.session_name,
                                                 cur.args.group_id, cur.args.message,
                                                 PyNone, cur.up)
    /\ cur.op = "send_file_to_group"
         => /\ cur.requests = SendFileOfCall.requests
            /\ cur.cli = SendFileOfCall.outcome

\* a file sent to the second group by its URL: one JSON request to the
\* send/file endpoint of the session, with the group id as chatId
C21_Witness ==
    /\ cur.op = "send_file_to_group"
    /\ cur.args.chat_id = "g2@g.us"
    /\ cur.args.file_path = PyNone
    /\ cur.args.file_content = PyNone
    /\ Len(cur.requests) = 1
    /\ cur.requests[1].url = <<"api", "sessions", "s1", "send", "file">>
    /\ cur.requests[1].json.chatId = "g2@g.us"
    /\ cur.ctl.kind = "return"

-----------------------------------------------------------------------------
\* the base64 alphabet, the digit of value v at position v + 1
B64Alphabet == UpperLetters \o LowerLetters \o Digits \o <<"+", "/">>

IsB64Digit(ch) == \E i \in 1..64 : B64Alphabet[i] = ch

B64Value(ch) == (CHOOSE i \in 1..64 : B64Alphabet[i] = ch) - 1

\* base64.b64decode(s) of a str: the characters outside the alphabet are
\* discarded, a length that is no multiple of four is an error, and each
\* group of four digits gives three bytes, fewer when it ends in padding
b64decode(s) ==
    LET chars == SelectSeq(s, LAMBDA ch : IsB64Digit(ch) \/ ch = "=")
        Dec[i \in 0..(Len(chars) \div 4)] ==
          IF i = 0 THEN <<>>
          ELSE LET c1 == chars[4 * i - 3]
                   c2 == chars[4 * i - 2]
                   c3 == chars[4 * i - 1]
                   c4 == chars[4 * i] IN
               Dec[i - 1] \o
               IF c3 = "="
                 THEN <<B64Value(c1) * 4 + B64Value(c2) \div 16>>
               ELSE IF c4 = "="
                 THEN <<B64Value(c1) * 4 + B64Value(c2) \div 16,
                        (B64Value(c2) % 16) * 16 + B64Value(c3) \div 4>>
               ELSE <<B64Value(c1) * 4 + B64Value(c2) \div 16,
                      (B64Value(c2) % 16) * 16 + B64Value(c3) \div 4,
                      (B64Value(c3) % 4) * 64 + B64Value(c4)>>
    IN IF Len(chars) % 4 # 0
         THEN Raise("binascii.Error", "Incorrect padding")
         ELSE Return(Dec[Len(chars) \div 4])

\* C22: download_file round-trips: whatever bytes the upstream download call
\* returns, the controller returns a result whose "file" field base64-decodes
\* to exactly those bytes and whose message_id is the requested message id.
C22_DownloadRoundTrips ==
    (Handling("download_file") /\ UpstreamOk)
    => /\ cur.cli = Return(cur.up.body)
       /\ cur.ctl.kind = "return"
       /\ b64decode(cur.ctl.value.file) = Return(cur.up.body)
       /\ cur.ctl.value.message_id = cur.args.message_id

\* the single byte 255 downloaded for message m2: the file field is "/w=="
C22_Witness ==
    /\ Handling("download_file")
    /\ cur.up = Resp(200, <<255>>)
    /\ cur.args.message_id = "m2"
    /\ cur.ctl = Return([file |-> <<"/", "w", "=", "=">>, message_id |-> "m2"])

-----------------------------------------------------------------------------
\* C23: a close() that interleaves with requests on the same client orphans
\* no open handle: every handle a client created is closed or is the
\* client's current handle.
C23_NoOrphanedHandle ==
    \A c \in Clients :
      \A h \in HandlesOf(c) : IsClosed(h) \/ http_client[c] = h

-----------------------------------------------------------------------------
\* C24: once the lifespan has exited, no connection handle opened by the
\* process is still open, the handle of the client the request handlers used
\* included.
C24_NoOpenHandleAfterShutdown ==
    (lifespan = "stopped" /\ \A t \in Tasks : task[t].pc = "idle")
    => OpenHandles = {}

-----------------------------------------------------------------------------
\* C25: whatever the order of requests and close() calls made one after the
\* other on a client, a request is issued on an open handle that is the
\* client's current one and the handle stays open while the request is in
\* flight; a request made when the client holds no open handle (after a
\* close() in particular) is issued on a handle created for it.
C25_NoRequestOnClosedHandle ==
    [][\A t \in Tasks :
         /\ task'[t].pc = "awaiting"
              => /\ task'[t].handle # NoHandle
                 /\ ~handles'[task'[t].handle].is_closed
         /\ (task[t].pc = "idle" /\ task'[t].pc = "awaiting")
              => /\ http_client'[task'[t].client] = task'[t].handle
                 /\ ~HoldsOpenHandle(task'[t].client)
                      => task'[t].handle \notin DOMAIN handles]_vars

\* a request in flight on the second handle of a client whose first handle
\* was closed by a close() that has returned
C25_Witness ==
    \E t \in Tasks :
      /\ task[t].pc = "awaiting"
      /\ close_called[task[t].client]
      /\ task[t].handle = 2
      /\ handles[1].owner = task[t].client
      /\ IsClosed(1)
      /\ ~IsClosed(2)
      /\ http_client[task[t].client] = 2

-----------------------------------------------------------------------------
\* the client method of the call raised, or it was ping and returned False
Failed(call) ==
    IF call.op = "none" THEN FALSE
    ELSE IF call.cli.kind = "raise" THEN TRUE
    ELSE IF call.op \in {"health_check", "readiness"} THEN call.cli.value = FALSE
    ELSE FALSE

\* C26: a failed upstream call leaves the connection state of its client as
\* it was: a client that held an open handle before a call that raises (or a
\* ping that returns False) holds the same handle, still open, after it, no
\* handle being created or closed; and the call that follows a failed call
\* on that client reuses the handle the failed call used.
C26_FailureKeepsHandle ==
    [][ncalls' = ncalls + 1
       => LET c == cur'.client IN
          /\ (Failed(cur') /\ HoldsOpenHandle(c))
               => /\ http_client' = http_client
                  /\ handles' = handles
          /\ (Failed(cur) /\ cur.client = c /\ cur.up.kind # "no_client")
               => /\ HoldsOpenHandle(c)
                  /\ cur'.up.kind # "no_client"
                  /\ http_client' = http_client
                  /\ handles' = handles]_vars

\* two sends on the same client, the first answered 500: one handle, open
C26_Witness ==
    /\ ncalls = 2
    /\ prev.op = "send_message"
    /\ prev.up = Resp(500, ErrorBody)
    /\ prev.cli.kind = "raise"
    /\ cur.op = "send_message"
    /\ cur.client = prev.client
    /\ Len(handles) = 1
    /\ http_client[cur.client] = 1
    /\ ~IsClosed(1)

-----------------------------------------------------------------------------
\* two controller results agree on whether the session is connected: both
\* raise, or both return and their connected values are equal
SameConnected(a, b) ==
    /\ a.kind = b.kind
    /\ a.kind = "return" => a.value.connected = b.value.connected

\* C27: the two connection checks agree: whatever the upstream answers to the
\* status call (no such session, or a session with any status string), the
\* connected flag of get_session_status equals the connected value of
\* check_connection for the same session name.
C27_ConnectionChecksAgree ==
    /\ Handling("get_session_status")
         => SameConnected(cur.ctl,
                SessionController_check_connection(cur.args.session_name, cur.up))
    /\ Handling("check_connection")
         => SameConnected(cur.ctl,
                SessionController_get_session_status(cur.args.session_name, cur.up))

\* a session the upstream reports as "started", in lower case: connected for
\* get_session_status and for check_connection
C27_Witness ==
    /\ Handling("get_session_status")
    /\ UpstreamOk
    /\ "status" \in DOMAIN cur.up.body
    /\ cur.up.body.status = <<"s", "t", "a", "r", "t", "e", "d">>
    /\ cur.ctl.kind = "return"
    /\ cur.ctl.value.connected = TRUE
    /\ SessionController_check_connection(cur.args.session_name, cur.up)
         = Return([connected |-> TRUE])

-----------------------------------------------------------------------------
HasPath == cur.args.file_path # PyNone

\* the path, when one is given, names a file that can be read
PathReadable == HasPath => Unwrap(cur.args.file_path) \in DOMAIN FileSystem

\* the number of sources the call was given: a path, non-empty bytes, a
\* non-empty URL
GivenSources ==
    (IF HasPath THEN 1 ELSE 0) + (IF HasBytes THEN 1 ELSE 0) + (IF HasUrl THEN 1 ELSE 0)

\* the bytes send_file is left with once a path's content has replaced the
\* supplied content
EffectiveContent ==
    IF HasPath THEN FileSystem[Unwrap(cur.args.file_path)]
    ELSE IF cur.args.file_content = PyNone THEN <<>>
    ELSE Unwrap(cur.args.file_content)

IsMultipartOf(request, content) ==
    /\ DOMAIN request = {"verb", "url", "files", "data"}
    /\ request.files.file[2] = content

IsJsonOf(request, file_url) ==
    /\ DOMAIN request = {"verb", "url", "json"}
    /\ request.json.url = file_url

\* C28 as stated: send_file given more than one source (the connection
\* handle obtained, the path readable) issues exactly one request, multipart
\* with the path's content when a path is given, multipart with the supplied
\* bytes when they are non-empty and no path is given, and the JSON form of
\* the URL only when there is no non-empty byte content.
C28_OneRequestWhateverTheSources ==
    (cur.op \in SendFileOps /\ HasClient /\ PathReadable /\ GivenSources > 1)
    => /\ Len(cur.requests) = 1
       /\ IF EffectiveContent # <<>>
            THEN IsMultipartOf(cur.requests[1], EffectiveContent)
            ELSE /\ HasUrl
                 /\ IsJsonOf(cur.requests[1], Unwrap(cur.args.file_url))

\* C28, amended: the source is picked by fixed precedence among the sources
\* given (the connection handle obtained, the path readable). The content of
\* a path replaces the supplied bytes, empty or not; if the bytes left are
\* non-empty, one multipart request carries them, whatever the URL; else if
\* the URL is non-empty, one JSON request carries it; else ValueError is
\* raised and no request is issued, which happens with two sources given
\* when the path names an empty file and there is no URL.
C28_SourcePrecedence ==
    (cur.op \in SendFileOps /\ HasClient /\ PathReadable)
    => IF EffectiveContent # <<>>
         THEN /\ Len(cur.requests) = 1
              /\ IsMultipartOf(cur.requests[1], EffectiveContent)
       ELSE IF HasUrl
         THEN /\ Len(cur.requests) = 1
              /\ IsJsonOf(cur.requests[1], Unwrap(cur.args.file_url))
       ELSE /\ cur.requests = <<>>
            /\ cur.cli.kind = "raise"
            /\ cur.cli.type = "ValueError"

\* a path, other bytes and a URL given together: one multipart request with
\* the bytes of the file at the path
C28_Witness ==
    /\ cur.op = "send_file_to_group"
    /\ cur.args.file_path = Some("/data/a.txt")
    /\ cur.args.file_content = Some(<<120, 121>>)
    /\ cur.args.file_url = Some("http://files/x.png")
    /\ Len(cur.requests) = 1
    /\ IsMultipartOf(cur.requests[1], <<104, 105>>)

-----------------------------------------------------------------------------
\* the call raised ValueError before sending anything, and the route, when
\* the call came through one, answered 500
RejectedAsNoSource ==
    /\ cur.cli.kind = "raise"
    /\ cur.cli.type = "ValueError"
    /\ cur.requests = <<>>
    /\ cur.resp # NoResponse => cur.resp.status = 500

\* C29: zero-length byte content counts as no source: send_file with empty
\* bytes, no path and no URL, and upload_file with empty bytes, raise
\* ValueError and issue no HTTP request (the connection handle obtained), so
\* an empty file sent through the upload routes is answered with an error.
C29_EmptyBytesIsNoSource ==
    /\ (/\ cur.op \in SendFileOps
        /\ HasClient
        /\ ~HasPath
        /\ cur.args.file_content = Some(<<>>)
        /\ ~HasUrl)
         => RejectedAsNoSource
    /\ (/\ Handling("upload_file")
        /\ HasClient
        /\ cur.args.file_path = PyNone
        /\ cur.args.file_content = Some(<<>>))
         => RejectedAsNoSource

\* an empty file posted to the upload route, the upstream ready to answer
\* 200: ValueError, no request, and a 500 from the route
C29_Witness ==
    /\ Handling("upload_file")
    /\ UpstreamOk
    /\ cur.args.file_content = Some(<<>>)
    /\ cur.cli.kind = "raise"
    /\ cur.cli.type = "ValueError"
    /\ cur.requests = <<>>
    /\ cur.resp.status = 500

-----------------------------------------------------------------------------
\* the fixed result of the operation, echoing what the caller asked for
FixedResult ==
    CASE Handling("stop_session") ->
           [status |-> "stopped", session |-> cur.args.session_name]
      [] Handling("logout_session") ->
           [status |-> "logged_out", session |-> cur.args.session_name]
      [] Handling("delete_message") ->
           [status |-> "deleted", message_id |-> cur.args.message_id]

\* C30: stop_session, logout_session and delete_message report success only
\* after the upstream call succeeded: the controller returns its fixed result
\* (status "stopped", "logged_out" or "deleted", with the caller's session
\* name or message id, whatever the upstream body) if and only if the
\* upstream answers 2xx, and raises otherwise.
C30_SuccessIffUpstreamOk ==
    cur.op \in {"stop_session", "logout_session", "delete_message"}
    => /\ cur.ctl = Return(FixedResult) <=> UpstreamOk
       /\ cur.ctl.kind = "return" => cur.ctl = Return(FixedResult)

====
